---- MODULE Spec2Model ----
(***************************************************************************)
(* Buffer pool manager and LRU replacer of BusTub                          *)
(* (src/src/buffer/buffer_pool_manager.cpp, src/src/buffer/lru_replacer.cpp)*)
(* Every entry point of the pool runs under the pool latch latch_, so an   *)
(* entry point is one atomic action.  The body of each entry point is an   *)
(* operator on a record of the pool's members, composed statement by       *)
(* statement in the order of the code.  A call leaves its arguments and    *)
(* result in last until the caller takes them (Return).                    *)
(* Spec   : all entry points, every call leaves its result.                *)
(* SpecRT : all entry points, with the NewPage / write / UnpinPage(dirty)  *)
(*          round trip of one page followed in rt.                         *)
(***************************************************************************)
EXTENDS Integers, Sequences, FiniteSets, TLC

\* ---------------------------------------------------------------- bounds
PoolSize == 2      \* pool_size_ given to the constructor
MaxPages == 3      \* page identifiers the device hands out: 0 .. MaxPages-1
MaxPin   == 2      \* cap on pin_count_ reached through FetchPage hits
MaxData  == 1      \* buffer contents are 0 (zeroed) .. MaxData
NumThreads == 2    \* threads calling the pool in SpecLatch
NumPages == 3      \* frame ids 0 .. NumPages-1 given to the replacer in SpecLRU
MaxSize == 3       \* max_size of the B+ tree pages
MaxKey == 4        \* keys are 0 .. MaxKey
MaxLeaves == 4     \* leaf pages in SpecChain, split recipients included

\* ------------------------------------------------------------- constants
INVALID_PAGE_ID == -1
NoFrame == -1      \* nullptr returned by FetchPageImpl / NewPageImpl

Frames  == 0 .. (PoolSize - 1)
PageIds == 0 .. (MaxPages - 1)
Data    == 0 .. MaxData
ZeroData == 0      \* Page::ResetMemory

NoThread == 0      \* a latch that nobody holds
Threads == 1 .. NumThreads
\* a thread outside the pool; pinned counts the pins it holds per page
IdleThread ==
    [pc |-> "idle", op |-> "Idle", page_id |-> INVALID_PAGE_ID,
     is_dirty |-> FALSE, pinned |-> [p \in PageIds |-> 0]]

VARIABLES pages, page_table, free_list, nodes, index, disk, next_page_id,
          deallocated, last, pins, rt,
          pool_latch, frame_latch, th,
          unpin_order,
          tree,
          calls

poolvars == <<pages, page_table, free_list, nodes, index>>
\* the latches and the threads, which move only in SpecLatch
latchvars == <<pool_latch, frame_latch, th>>
\* what the single-caller specifications Spec and SpecRT leave alone
\* unpin_order lists the replacer's candidates by their latest Unpin that
\* took effect, oldest first; it is followed in SpecLRU
lruvars == <<unpin_order>>
\* what SpecLatch leaves alone beside the caller's history
\* tree maps the page ids of the B+ tree pages in use to their contents;
\* it is followed in the specifications of the page operations
treevars == <<tree>>
\* the calls made so far, where a specification counts them
callvars == <<calls>>
restvars == <<lruvars, treevars, callvars>>
auxvars == <<latchvars, restvars>>
vars == <<pages, page_table, free_list, nodes, index, disk, next_page_id,
          deallocated, last, pins, rt, auxvars>>

\* ------------------------------------------------------ sequence helpers
RECURSIVE SeqRemoveFirst(_, _)
SeqRemoveFirst(s, x) ==
    IF s = <<>> THEN <<>>
    ELSE IF Head(s) = x THEN Tail(s)
    ELSE <<Head(s)>> \o SeqRemoveFirst(Tail(s), x)

SeqRange(s) == { s[i] : i \in 1 .. Len(s) }

\* ------------------------------------------------------------- page table
\* std::unordered_map<page_id_t, frame_id_t>: a function on the resident ids
MapErase_Keep(m, k) == m

MapErase(m, k) == [ q \in (DOMAIN m) \ {k} |-> m[q] ]
MapPut(m, k, v) == [ q \in (DOMAIN m) \cup {k} |-> IF q = k THEN v ELSE m[q] ]
EmptyMap == [ q \in {} |-> 0 ]

\* ----------------------------------------------------------- LRU replacer
\* A replacer is [nodes |-> list, front first; index |-> keys of index_]
LRUVictim_Front(r) ==
    IF r.nodes = <<>> THEN [ok |-> FALSE, frame_id |-> NoFrame, r |-> r]
    ELSE LET f == r.nodes[1]
         IN [ok |-> TRUE, frame_id |-> f,
             r |-> [nodes |-> Tail(r.nodes), index |-> r.index \ {f}]]

LRUVictim(r) ==
    IF r.nodes = <<>>
    THEN [ok |-> FALSE, frame_id |-> NoFrame, r |-> r]
    ELSE LET f == r.nodes[Len(r.nodes)]
         IN [ok |-> TRUE, frame_id |-> f,
             r |-> [nodes |-> SubSeq(r.nodes, 1, Len(r.nodes) - 1),
                    index |-> r.index \ {f}]]

LRUPin_KeepIndex(r, f) ==
    IF f \notin r.index THEN r
    ELSE [nodes |-> SeqRemoveFirst(r.nodes, f), index |-> r.index]

LRUPin(r, f) ==
    IF f \notin r.index THEN r
    ELSE [nodes |-> SeqRemoveFirst(r.nodes, f), index |-> r.index \ {f}]

LRUUnpin_MoveToFront(r, f) ==
    [nodes |-> <<f>> \o SeqRemoveFirst(r.nodes, f), index |-> r.index \cup {f}]

LRUUnpin(r, f) ==
    IF f \in r.index THEN r
    ELSE [nodes |-> <<f>> \o r.nodes, index |-> r.index \cup {f}]

LRUSize(r) == Len(r.nodes)

\* ------------------------------------------------------------ block device
\* The pool record b holds the members of BufferPoolManager, the state of
\* the device behind disk_manager_, and the device calls and buffer
\* overwrites made so far by the running entry point (events).
Event(ev, pid, f, d) == [ev |-> ev, page_id |-> pid, frame |-> f, data |-> d]

Log(b, e) == [b EXCEPT !.events = Append(@, e)]

DiskWritePage(b, pid, d) ==
    Log([b EXCEPT !.disk = IF pid \in DOMAIN @ THEN [@ EXCEPT ![pid] = d] ELSE @],
        Event("WritePage", pid, NoFrame, d))

DiskReadPage(b, pid, f) ==
    Log([b EXCEPT !.pages[f].data = b.disk[pid]],
        Event("ReadPage", pid, f, b.disk[pid]))

DiskAllocatePage(b) ==
    [b |-> Log([b EXCEPT !.next_page_id = @ + 1],
               Event("AllocatePage", b.next_page_id, NoFrame, ZeroData)),
     page_id |-> b.next_page_id]

DiskDeallocatePage(b, pid) ==
    Log([b EXCEPT !.deallocated = @ \cup {pid}],
        Event("DeallocatePage", pid, NoFrame, ZeroData))

\* ------------------------------------------------------------- page frame
ResetMemory(b, f) ==
    Log([b EXCEPT !.pages[f].data = ZeroData],
        Event("ResetMemory", b.pages[f].page_id, f, ZeroData))

SetPageId(b, f, pid) ==
    Log([b EXCEPT !.pages[f].page_id = pid],
        Event("SetPageId", pid, f, b.pages[f].data))

\* ---------------------------------------------------- buffer pool manager
\* variant: drops the flag without writing the buffer
FlushPageIfPossible_NoWrite(b, f) ==
    [b EXCEPT !.pages[f].is_dirty = FALSE]

FlushPageIfPossible(b, f) ==
    IF b.pages[f].is_dirty
    THEN [DiskWritePage(b, b.pages[f].page_id, b.pages[f].data)
             EXCEPT !.pages[f].is_dirty = FALSE]
    ELSE b

FindAvailablePage(b) ==
    IF b.free_list # <<>>
    THEN [found |-> TRUE, frame_id |-> Head(b.free_list),
          b |-> [b EXCEPT !.free_list = Tail(@)]]
    ELSE LET v == LRUVictim(b.replacer)
         IN [found |-> v.ok, frame_id |-> v.frame_id,
             b |-> [b EXCEPT !.replacer = v.r]]

\* variant: stamps the new identifier on the frame before the write-back
FetchPageImpl_RebindFirst(b, page_id) ==
    IF page_id \in DOMAIN b.page_table
    THEN LET frame_id == b.page_table[page_id]
             b1 == [b EXCEPT !.replacer = LRUPin(@, frame_id)]
             b2 == [b1 EXCEPT !.pages[frame_id].pin_count = @ + 1]
         IN [b |-> b2, frame |-> frame_id]
    ELSE LET fa == FindAvailablePage(b)
         IN IF ~fa.found
            THEN [b |-> fa.b, frame |-> NoFrame]
            ELSE LET f  == fa.frame_id
                     b1 == [fa.b EXCEPT !.page_table = MapErase(@, fa.b.pages[f].page_id)]
                     b2 == [b1 EXCEPT !.page_table = MapPut(@, page_id, f)]
                     b3 == SetPageId(b2, f, page_id)
                     b4 == FlushPageIfPossible(b3, f)
                     b5 == DiskReadPage(b4, page_id, f)
                     b6 == [b5 EXCEPT !.pages[f].pin_count = 1]
                 IN [b |-> b6, frame |-> f]

\* variant: a hit sets pin_count_ to 1 instead of incrementing it
FetchPageImpl_HitAssign(b, page_id) ==
    IF page_id \in DOMAIN b.page_table
    THEN LET frame_id == b.page_table[page_id]
             b1 == [b EXCEPT !.replacer = LRUPin(@, frame_id)]
             b2 == [b1 EXCEPT !.pages[frame_id].pin_count = 1]
         IN [b |-> b2, frame |-> frame_id]
    ELSE LET fa == FindAvailablePage(b)
         IN IF ~fa.found
            THEN [b |-> fa.b, frame |-> NoFrame]
            ELSE LET f  == fa.frame_id
                     b1 == [fa.b EXCEPT !.page_table = MapErase(@, fa.b.pages[f].page_id)]
                     b2 == [b1 EXCEPT !.page_table = MapPut(@, page_id, f)]
                     b3 == FlushPageIfPossible(b2, f)
                     b4 == DiskReadPage(b3, page_id, f)
                     b5 == SetPageId(b4, f, page_id)
                     b6 == [b5 EXCEPT !.pages[f].pin_count = 1]
                 IN [b |-> b6, frame |-> f]

\* variant: a hit leaves the frame with the replacer
FetchPageImpl_KeepCandidate(b, page_id) ==
    IF page_id \in DOMAIN b.page_table
    THEN LET frame_id == b.page_table[page_id]
         IN [b |-> [b EXCEPT !.pages[frame_id].pin_count = @ + 1],
             frame |-> frame_id]
    ELSE LET fa == FindAvailablePage(b)
         IN IF ~fa.found
            THEN [b |-> fa.b, frame |-> NoFrame]
            ELSE LET f  == fa.frame_id
                     b1 == [fa.b EXCEPT !.page_table = MapErase(@, fa.b.pages[f].page_id)]
                     b2 == [b1 EXCEPT !.page_table = MapPut(@, page_id, f)]
                     b3 == FlushPageIfPossible(b2, f)
                     b4 == DiskReadPage(b3, page_id, f)
                     b5 == SetPageId(b4, f, page_id)
                     b6 == [b5 EXCEPT !.pages[f].pin_count = 1]
                 IN [b |-> b6, frame |-> f]

FetchPageImpl(b, page_id) ==
    IF page_id \in DOMAIN b.page_table
    THEN LET frame_id == b.page_table[page_id]
             b1 == [b EXCEPT !.replacer = LRUPin(@, frame_id)]
             b2 == [b1 EXCEPT !.pages[frame_id].pin_count = @ + 1]
         IN [b |-> b2, frame |-> frame_id]
    ELSE LET fa == FindAvailablePage(b)
         IN IF ~fa.found
            THEN [b |-> fa.b, frame |-> NoFrame]
            ELSE LET f  == fa.frame_id
                     b1 == [fa.b EXCEPT !.page_table = MapErase(@, fa.b.pages[f].page_id)]
                     b2 == [b1 EXCEPT !.page_table = MapPut(@, page_id, f)]
                     b3 == FlushPageIfPossible(b2, f)
                     b4 == DiskReadPage(b3, page_id, f)
                     b5 == SetPageId(b4, f, page_id)
                     b6 == [b5 EXCEPT !.pages[f].pin_count = 1]
                 IN [b |-> b6, frame |-> f]

\* variant: hands the frame to the replacer on every successful unpin
UnpinPageImpl_AlwaysUnpin(b, page_id, is_dirty) ==
    IF page_id \notin DOMAIN b.page_table
    THEN [b |-> b, ok |-> TRUE]
    ELSE LET f == b.page_table[page_id]
         IN IF b.pages[f].pin_count > 0
            THEN LET b1 == [b EXCEPT !.pages[f].is_dirty = @ \/ is_dirty]
                     b2 == [b1 EXCEPT !.pages[f].pin_count = @ - 1]
                     b3 == [b2 EXCEPT !.replacer = LRUUnpin(@, f)]
                 IN [b |-> b3, ok |-> TRUE]
            ELSE [b |-> b, ok |-> FALSE]

\* variant: is_dirty_ = is_dirty instead of is_dirty_ |= is_dirty
UnpinPageImpl_Overwrite(b, page_id, is_dirty) ==
    IF page_id \notin DOMAIN b.page_table
    THEN [b |-> b, ok |-> TRUE]
    ELSE LET f == b.page_table[page_id]
         IN IF b.pages[f].pin_count > 0
            THEN LET b1 == [b EXCEPT !.pages[f].is_dirty = is_dirty]
                     b2 == [b1 EXCEPT !.pages[f].pin_count = @ - 1]
                     b3 == IF b2.pages[f].pin_count = 0
                           THEN [b2 EXCEPT !.replacer = LRUUnpin(@, f)]
                           ELSE b2
                 IN [b |-> b3, ok |-> TRUE]
            ELSE [b |-> b, ok |-> FALSE]

\* variant: ORs the dirty hint in before looking at pin_count_
UnpinPageImpl_DirtyFirst(b, page_id, is_dirty) ==
    IF page_id \notin DOMAIN b.page_table
    THEN [b |-> b, ok |-> TRUE]
    ELSE LET f  == b.page_table[page_id]
             b1 == [b EXCEPT !.pages[f].is_dirty = @ \/ is_dirty]
         IN IF b.pages[f].pin_count > 0
            THEN LET b2 == [b1 EXCEPT !.pages[f].pin_count = @ - 1]
                     b3 == IF b2.pages[f].pin_count = 0
                           THEN [b2 EXCEPT !.replacer = LRUUnpin(@, f)]
                           ELSE b2
                 IN [b |-> b3, ok |-> TRUE]
            ELSE [b |-> b1, ok |-> FALSE]

UnpinPageImpl(b, page_id, is_dirty) ==
    IF page_id \notin DOMAIN b.page_table
    THEN [b |-> b, ok |-> TRUE]
    ELSE LET f == b.page_table[page_id]
         IN IF b.pages[f].pin_count > 0
            THEN LET b1 == [b EXCEPT !.pages[f].is_dirty = @ \/ is_dirty]
                     b2 == [b1 EXCEPT !.pages[f].pin_count = @ - 1]
                     b3 == IF b2.pages[f].pin_count = 0
                           THEN [b2 EXCEPT !.replacer = LRUUnpin(@, f)]
                           ELSE b2
                 IN [b |-> b3, ok |-> TRUE]
            ELSE [b |-> b, ok |-> FALSE]

flushPageWithoutLock(b, page_id) ==
    IF page_id \notin DOMAIN b.page_table
    THEN [b |-> b, ok |-> FALSE]
    ELSE [b |-> FlushPageIfPossible(b, b.page_table[page_id]), ok |-> TRUE]

FlushPageImpl(b, page_id) == flushPageWithoutLock(b, page_id)

\* variant: asks the device for an identifier before looking for a frame
NewPageImpl_AllocFirst(b) ==
    LET al == DiskAllocatePage(b)
        fa == FindAvailablePage(al.b)
    IN IF ~fa.found
       THEN [b |-> fa.b, frame |-> NoFrame, page_id |-> INVALID_PAGE_ID]
       ELSE LET f  == fa.frame_id
                b1 == [fa.b EXCEPT !.page_table = MapErase(@, fa.b.pages[f].page_id)]
                b2 == [b1 EXCEPT !.page_table = MapPut(@, al.page_id, f)]
                b3 == [b2 EXCEPT !.replacer = LRUPin(@, f)]
                b4 == FlushPageIfPossible(b3, f)
                b5 == ResetMemory(b4, f)
                b6 == SetPageId(b5, f, al.page_id)
                b7 == [b6 EXCEPT !.pages[f].pin_count = 1]
            IN [b |-> b7, frame |-> f, page_id |-> al.page_id]

NewPageImpl(b) ==
    LET fa == FindAvailablePage(b)
    IN IF ~fa.found
       THEN [b |-> fa.b, frame |-> NoFrame, page_id |-> INVALID_PAGE_ID]
       ELSE LET f  == fa.frame_id
                al == DiskAllocatePage(fa.b)
                b1 == [al.b EXCEPT !.page_table = MapErase(@, al.b.pages[f].page_id)]
                b2 == [b1 EXCEPT !.page_table = MapPut(@, al.page_id, f)]
                b3 == [b2 EXCEPT !.replacer = LRUPin(@, f)]
                b4 == FlushPageIfPossible(b3, f)
                b5 == ResetMemory(b4, f)
                b6 == SetPageId(b5, f, al.page_id)
                b7 == [b6 EXCEPT !.pages[f].pin_count = 1]
            IN [b |-> b7, frame |-> f, page_id |-> al.page_id]

\* variant: leaves the deleted frame in the replacer
DeletePageImpl_NoPin(b, page_id) ==
    IF page_id \notin DOMAIN b.page_table
    THEN [b |-> b, ok |-> TRUE]
    ELSE LET f == b.page_table[page_id]
         IN IF b.pages[f].pin_count > 0
            THEN [b |-> b, ok |-> FALSE]
            ELSE LET b1 == DiskDeallocatePage(b, page_id)
                     b2 == SetPageId(b1, f, INVALID_PAGE_ID)
                     b3 == [b2 EXCEPT !.pages[f].is_dirty = FALSE]
                     b4 == [b3 EXCEPT !.pages[f].pin_count = 0]
                     b5 == ResetMemory(b4, f)
                     b7 == [b5 EXCEPT !.page_table = MapErase(@, page_id)]
                     b8 == [b7 EXCEPT !.free_list = Append(@, f)]
                 IN [b |-> b8, ok |-> TRUE]

\* variant: deletes the page whatever its pin count
DeletePageImpl_IgnorePins(b, page_id) ==
    IF page_id \notin DOMAIN b.page_table
    THEN [b |-> b, ok |-> TRUE]
    ELSE LET f  == b.page_table[page_id]
             b1 == DiskDeallocatePage(b, page_id)
             b2 == SetPageId(b1, f, INVALID_PAGE_ID)
             b3 == [b2 EXCEPT !.pages[f].is_dirty = FALSE]
             b4 == [b3 EXCEPT !.pages[f].pin_count = 0]
             b5 == ResetMemory(b4, f)
             b6 == [b5 EXCEPT !.replacer = LRUPin(@, f)]
             b7 == [b6 EXCEPT !.page_table = MapErase(@, page_id)]
             b8 == [b7 EXCEPT !.free_list = Append(@, f)]
         IN [b |-> b8, ok |-> TRUE]

DeletePageImpl(b, page_id) ==
    IF page_id \notin DOMAIN b.page_table
    THEN [b |-> b, ok |-> TRUE]
    ELSE LET f == b.page_table[page_id]
         IN IF b.pages[f].pin_count > 0
            THEN [b |-> b, ok |-> FALSE]
            ELSE LET b1 == DiskDeallocatePage(b, page_id)
                     b2 == SetPageId(b1, f, INVALID_PAGE_ID)
                     b3 == [b2 EXCEPT !.pages[f].is_dirty = FALSE]
                     b4 == [b3 EXCEPT !.pages[f].pin_count = 0]
                     b5 == ResetMemory(b4, f)
                     b6 == [b5 EXCEPT !.replacer = LRUPin(@, f)]
                     b7 == [b6 EXCEPT !.page_table = MapErase(@, page_id)]
                     b8 == [b7 EXCEPT !.free_list = Append(@, f)]
                 IN [b |-> b8, ok |-> TRUE]

\* for (const auto &kv : page_table_) flushPageWithoutLock(kv.first);
\* the iteration order of the unordered_map is unspecified; flushes of
\* different pages touch different frames and device pages, so they commute
RECURSIVE FlushEach(_, _)
FlushEach(b, ids) ==
    IF ids = {} THEN b
    ELSE LET p == CHOOSE q \in ids : \A o \in ids : q <= o
         IN FlushEach(flushPageWithoutLock(b, p).b, ids \ {p})

FlushAllPagesImpl(b) == FlushEach(b, DOMAIN b.page_table)

\* ------------------------------------------------------------------ state
\* pages, page_table, free_list : members of BufferPoolManager
\* nodes, index                 : members of LRUReplacer (list and map keys)
\* disk, next_page_id, deallocated : the block device behind disk_manager_
\* last  : the call that has just returned: entry point, arguments, result
\*         and events; "Idle" once the caller has taken the result
\* pins  : per page, calls that pinned it minus calls that unpinned it,
\*         counted by the callers since the page became resident
\* rt    : the page whose NewPage / write / unpin-dirty round trip is
\*         followed, and how far it has got; a new page is followed when
\*         no other round trip is being followed
Pool ==
    [pages |-> pages, page_table |-> page_table, free_list |-> free_list,
     replacer |-> [nodes |-> nodes, index |-> index],
     disk |-> disk, next_page_id |-> next_page_id,
     deallocated |-> deallocated, events |-> <<>>]

InstallPool(b) ==
    /\ pages' = b.pages
    /\ page_table' = b.page_table
    /\ free_list' = b.free_list
    /\ nodes' = b.replacer.nodes
    /\ index' = b.replacer.index
    /\ disk' = b.disk
    /\ next_page_id' = b.next_page_id
    /\ deallocated' = b.deallocated

Install(b) == InstallPool(b) /\ UNCHANGED auxvars

\* evicted: the identifiers the call removed from the page table
Call(op, pid, d, f, ok, b) ==
    [op |-> op, page_id |-> pid, is_dirty |-> d, frame |-> f, ok |-> ok,
     evicted |-> (DOMAIN page_table) \ (DOMAIN b.page_table),
     events |-> b.events]

IdleCall ==
    [op |-> "Idle", page_id |-> INVALID_PAGE_ID, is_dirty |-> FALSE,
     frame |-> NoFrame, ok |-> TRUE, evicted |-> {}, events |-> <<>>]

Idle == last.op = "Idle"

RtNone == [page_id |-> INVALID_PAGE_ID, stage |-> "none", data |-> ZeroData]

\* pins after a call on page pid that added delta pins, leaving table pt
Counted(pt, pid, delta) ==
    [q \in PageIds |->
        IF q \notin DOMAIN pt THEN 0
        ELSE IF q = pid THEN pins[q] + delta ELSE pins[q]]

InitMembers ==
    /\ pages = [f \in Frames |->
                  [page_id |-> INVALID_PAGE_ID, pin_count |-> 0,
                   is_dirty |-> FALSE, data |-> ZeroData]]
    /\ page_table = EmptyMap
    /\ free_list = [i \in 1 .. PoolSize |-> i - 1]
    /\ nodes = <<>>
    /\ index = {}
    /\ disk = [p \in PageIds |-> ZeroData]
    /\ next_page_id = 0
    /\ deallocated = {}
    /\ pins = [p \in PageIds |-> 0]
    /\ rt = RtNone

InitPool == InitMembers /\ last = IdleCall

\* no thread is inside the pool and no latch is held
InitLatch ==
    /\ pool_latch = NoThread
    /\ frame_latch = [f \in Frames |-> [writer |-> NoThread, readers |-> {}]]
    /\ th = [t \in Threads |-> IdleThread]

\* the pool and the replacer alone, no B+ tree page
InitAux == InitLatch /\ unpin_order = <<>> /\ calls = 0

Init == InitPool /\ InitAux /\ tree = EmptyMap

\* A caller passes identifiers the device has handed out and not taken back.
Allocated == (0 .. (next_page_id - 1)) \ deallocated

\* ------------------------------------------------ the calls, without history
\* r is the result of the entry point's body on the current pool
FetchPageStep(p, r) ==
    /\ Idle
    /\ p \in Allocated
    /\ p \in DOMAIN page_table => pages[page_table[p]].pin_count < MaxPin
    /\ Install(r.b)
    /\ pins' = Counted(r.b.page_table, p, IF r.frame # NoFrame THEN 1 ELSE 0)

NewPageStep(r) ==
    /\ Idle
    /\ next_page_id < MaxPages
    /\ Install(r.b)
    /\ pins' = Counted(r.b.page_table, r.page_id, IF r.frame # NoFrame THEN 1 ELSE 0)

UnpinCounted(p, r) == p \in DOMAIN page_table /\ r.ok

UnpinPageStep(p, r) ==
    /\ Idle
    /\ p \in Allocated
    /\ Install(r.b)
    /\ pins' = Counted(r.b.page_table, p, IF UnpinCounted(p, r) THEN -1 ELSE 0)

FlushPageStep(p, r) ==
    /\ Idle
    /\ p \in Allocated
    /\ Install(r.b)
    /\ pins' = pins

FlushAllPagesStep(b) ==
    /\ Idle
    /\ Install(b)
    /\ pins' = pins

DeletePageStep(p, r) ==
    /\ Idle
    /\ p \in Allocated
    /\ Install(r.b)
    /\ pins' = Counted(r.b.page_table, p, 0)

\* A holder of a pin on p overwrites the frame's buffer (Page::GetData).
WriteBufferStep(p, d) ==
    /\ Idle
    /\ p \in DOMAIN page_table
    /\ pages[page_table[p]].pin_count > 0
    /\ pages' = [pages EXCEPT ![page_table[p]].data = d]
    /\ UNCHANGED <<page_table, free_list, nodes, index, disk, next_page_id,
                   deallocated, pins, auxvars>>

\* The caller takes the result of the call that has returned.
Return ==
    /\ ~Idle
    /\ last' = IdleCall
    /\ UNCHANGED <<pages, page_table, free_list, nodes, index, disk,
                   next_page_id, deallocated, pins, rt, auxvars>>

\* ------------------------------------- Spec: every call leaves its result
FetchPage(p) ==
    LET r == FetchPageImpl(Pool, p)
    IN /\ FetchPageStep(p, r)
       /\ last' = Call("FetchPage", p, FALSE, r.frame, r.frame # NoFrame, r.b)
       /\ rt' = rt

NewPage ==
    LET r == NewPageImpl(Pool)
    IN /\ NewPageStep(r)
       /\ last' = Call("NewPage", r.page_id, FALSE, r.frame, r.frame # NoFrame, r.b)
       /\ rt' = rt

UnpinPage(p, d) ==
    LET r == UnpinPageImpl(Pool, p, d)
    IN /\ UnpinPageStep(p, r)
       /\ last' = Call("UnpinPage", p, d, NoFrame, r.ok, r.b)
       /\ rt' = rt

FlushPage(p) ==
    LET r == FlushPageImpl(Pool, p)
    IN /\ FlushPageStep(p, r)
       /\ last' = Call("FlushPage", p, FALSE, NoFrame, r.ok, r.b)
       /\ rt' = rt

FlushAllPages ==
    LET b == FlushAllPagesImpl(Pool)
    IN /\ FlushAllPagesStep(b)
       /\ last' = Call("FlushAllPages", INVALID_PAGE_ID, FALSE, NoFrame, TRUE, b)
       /\ rt' = rt

DeletePage(p) ==
    LET r == DeletePageImpl(Pool, p)
    IN /\ DeletePageStep(p, r)
       /\ last' = Call("DeletePage", p, FALSE, NoFrame, r.ok, r.b)
       /\ rt' = rt

WriteBuffer(p, d) ==
    /\ WriteBufferStep(p, d)
    /\ last' = [op |-> "WriteBuffer", page_id |-> p, is_dirty |-> FALSE,
                frame |-> page_table[p], ok |-> TRUE, evicted |-> {},
                events |-> <<>>]
    /\ rt' = rt

Next ==
    \/ \E p \in PageIds : FetchPage(p)
    \/ NewPage
    \/ \E p \in PageIds, d \in BOOLEAN : UnpinPage(p, d)
    \/ \E p \in PageIds : FlushPage(p)
    \/ FlushAllPages
    \/ \E p \in PageIds : DeletePage(p)
    \/ \E p \in PageIds, d \in Data : WriteBuffer(p, d)
    \/ Return

Spec == Init /\ [][Next]_vars

\* ------------- SpecRT: the round trip of one page is followed; only
\* FetchPage leaves its result
RTFetchPage(p) ==
    LET r == FetchPageImpl(Pool, p)
    IN /\ FetchPageStep(p, r)
       /\ last' = Call("FetchPage", p, FALSE, r.frame, r.frame # NoFrame, r.b)
       /\ rt' = rt

RTNewPage ==
    LET r == NewPageImpl(Pool)
    IN /\ NewPageStep(r)
       /\ last' = last
       /\ rt' = IF r.frame # NoFrame /\ rt.stage = "none"
                THEN [page_id |-> r.page_id, stage |-> "new", data |-> ZeroData]
                ELSE rt

RTUnpinPage(p, d) ==
    LET r == UnpinPageImpl(Pool, p, d)
    IN /\ UnpinPageStep(p, r)
       /\ last' = last
       /\ rt' = IF UnpinCounted(p, r) /\ rt.page_id = p /\ rt.stage = "written"
                THEN IF d THEN [rt EXCEPT !.stage = "armed"] ELSE RtNone
                ELSE rt

RTFlushPage(p) ==
    /\ FlushPageStep(p, FlushPageImpl(Pool, p))
    /\ UNCHANGED <<last, rt>>

RTFlushAllPages ==
    /\ FlushAllPagesStep(FlushAllPagesImpl(Pool))
    /\ UNCHANGED <<last, rt>>

RTDeletePage(p) ==
    /\ DeletePageStep(p, DeletePageImpl(Pool, p))
    /\ last' = last
    /\ rt' = IF rt.page_id = p THEN RtNone ELSE rt

RTWriteBuffer(p, d) ==
    /\ WriteBufferStep(p, d)
    /\ last' = last
    /\ rt' = IF rt.page_id # p THEN rt
             ELSE IF rt.stage = "new"
             THEN [rt EXCEPT !.stage = "written", !.data = d]
             ELSE RtNone

NextRT ==
    \/ \E p \in PageIds : RTFetchPage(p)
    \/ RTNewPage
    \/ \E p \in PageIds, d \in BOOLEAN : RTUnpinPage(p, d)
    \/ \E p \in PageIds : RTFlushPage(p)
    \/ RTFlushAllPages
    \/ \E p \in PageIds : RTDeletePage(p)
    \/ \E p \in PageIds, d \in Data : RTWriteBuffer(p, d)
    \/ Return

SpecRT == Init /\ [][NextRT]_vars

TypeOK ==
    /\ \A f \in Frames : /\ pages[f].page_id \in PageIds \cup {INVALID_PAGE_ID}
                         /\ pages[f].pin_count \in 0 .. MaxPin
                         /\ pages[f].data \in Data
    /\ next_page_id \in 0 .. MaxPages

\* ------------------------------------------------------------ properties
Resident(f) == pages[f].page_id # INVALID_PAGE_ID
HasEvent(ev) == \E i \in 1 .. Len(last.events) : last.events[i].ev = ev

\* C1: the page table maps p to f exactly when frame f holds p, and no
\* valid identifier is held by two frames.
PageTableBijection ==
    /\ \A p \in DOMAIN page_table :
          page_table[p] \in Frames /\ pages[page_table[p]].page_id = p
    /\ \A f \in Frames :
          Resident(f) => /\ pages[f].page_id \in DOMAIN page_table
                         /\ page_table[pages[f].page_id] = f
    /\ \A f, g \in Frames :
          (f # g /\ Resident(f)) => pages[f].page_id # pages[g].page_id

\* a fetch has evicted a page while every frame holds some page
BijectionAfterEviction ==
    /\ last.op = "FetchPage"
    /\ last.evicted # {}
    /\ Cardinality(DOMAIN page_table) = PoolSize

\* C2: a page leaves the page table through FetchPage or NewPage only with
\* pin_count 0; a frame is rebound only with pin_count 0; the replacer's
\* candidates are exactly the resident frames with pin_count 0.
EvictStep ==
    last'.op \in {"FetchPage", "NewPage"} =>
       /\ \A p \in (DOMAIN page_table) \ (DOMAIN page_table') :
             pages[page_table[p]].pin_count = 0
       /\ \A f \in Frames :
             (Resident(f) /\ pages'[f].page_id # pages[f].page_id)
                => pages[f].pin_count = 0

CandidatesAreUnpinned ==
    \A f \in Frames :
       (f \in SeqRange(nodes)) <=> (Resident(f) /\ pages[f].pin_count = 0)

EvictIffUnpinned == [][EvictStep]_vars /\ []CandidatesAreUnpinned

\* a NewPage or FetchPage has evicted a page while another page is pinned
\* more than once
EvictedBesidePinned ==
    /\ last.op \in {"FetchPage", "NewPage"}
    /\ last.evicted # {}
    /\ \E f \in Frames : pages[f].pin_count > 1

\* C6: every frame is in exactly one of free list, replacer, pinned, and
\* the three sizes add up to the pool size.
PinnedFrames == { f \in Frames : Resident(f) /\ pages[f].pin_count > 0 }

FramePartition ==
    /\ \A f \in Frames :
          /\ f \in SeqRange(free_list) =>
                ~Resident(f) /\ f \notin SeqRange(nodes) /\ f \notin PinnedFrames
          /\ f \in SeqRange(nodes) =>
                /\ Resident(f) /\ pages[f].pin_count = 0
                /\ f \notin SeqRange(free_list)
          /\ f \in PinnedFrames =>
                f \notin SeqRange(free_list) /\ f \notin SeqRange(nodes)
          /\ f \in SeqRange(free_list) \cup SeqRange(nodes) \cup PinnedFrames
    /\ Len(free_list) + LRUSize([nodes |-> nodes, index |-> index])
          + Cardinality(PinnedFrames) = PoolSize

\* a delete has put a candidate frame back on the free list while another
\* frame is a candidate
PartitionAfterDelete ==
    /\ last.op = "DeletePage"
    /\ last.evicted # {}
    /\ free_list # <<>>
    /\ nodes # <<>>

\* C3: when FetchPage or NewPage reuses a frame holding a dirty page, the
\* old buffer is written to the device under the old identifier before the
\* buffer is overwritten and before the frame's page_id is set.
WriteBackStep ==
    \A f \in Frames :
       ( /\ last'.op \in {"FetchPage", "NewPage"}
         /\ last'.frame = f
         /\ Resident(f)
         /\ pages[f].page_id \in last'.evicted
         /\ pages[f].is_dirty )
       => LET ev  == last'.events
              old == pages[f]
          IN /\ \E i \in 1 .. Len(ev) :
                   /\ ev[i].ev = "WritePage"
                   /\ ev[i].page_id = old.page_id
                   /\ ev[i].data = old.data
                   /\ \A j \in 1 .. Len(ev) :
                         /\ ev[j].ev \in {"ReadPage", "ResetMemory", "SetPageId"}
                               => j > i
                         /\ ev[j].ev = "WritePage" => j = i
             /\ disk'[old.page_id] = old.data

WriteBackBeforeOverwrite == [][WriteBackStep]_vars

\* a fetch or new page has written a non-zero buffer of its victim back
DirtyVictimWritten ==
    /\ last.op \in {"FetchPage", "NewPage"}
    /\ last.evicted # {}
    /\ \E i \in 1 .. Len(last.events) :
          /\ last.events[i].ev = "WritePage"
          /\ last.events[i].data # ZeroData
          /\ last.events[i].page_id \in last.evicted

\* C4: once NewPage has returned p, the caller has written B and
\* UnpinPage(p, true) has returned true, every FetchPage(p) that returns a
\* frame returns buffer B, as long as p is not written again or deleted.
RoundTrip ==
    ( /\ last.op = "FetchPage"
      /\ last.frame # NoFrame
      /\ rt.stage = "armed"
      /\ rt.page_id = last.page_id )
    => pages[last.frame].data = rt.data

\* the followed page comes back from the device with its non-zero bytes
RoundTripFromDisk ==
    /\ last.op = "FetchPage"
    /\ last.frame # NoFrame
    /\ rt.stage = "armed"
    /\ rt.page_id = last.page_id
    /\ rt.data # ZeroData
    /\ HasEvent("ReadPage")

\* C5: while p is resident its pin_count is the number of calls that
\* pinned it minus the number of calls that unpinned it; a successful
\* FetchPage(p) returns the frame of p with pin_count one higher (1 on a
\* miss).
PinCountMatches ==
    \A p \in DOMAIN page_table : pages[page_table[p]].pin_count = pins[p]

FetchPinStep ==
    (last'.op = "FetchPage" /\ last'.frame # NoFrame)
    => LET p == last'.page_id
           f == last'.frame
       IN /\ pages'[f].page_id = p
          /\ p \in DOMAIN page_table' /\ page_table'[p] = f
          /\ pages'[f].pin_count =
                IF p \in DOMAIN page_table
                THEN pages[page_table[p]].pin_count + 1
                ELSE 1

PinAccounting == []PinCountMatches /\ [][FetchPinStep]_vars

\* a fetch has hit a page that was already pinned
FetchHitPinned ==
    /\ last.op = "FetchPage"
    /\ last.frame # NoFrame
    /\ last.events = <<>>
    /\ pins[last.page_id] = 2

\* C7: NewPage and FetchPage of a non-resident page return null exactly
\* when the free list is empty and the replacer has no candidate, and then
\* change nothing and allocate nothing; with an empty free list and one
\* unpinned frame they succeed and reuse that frame.
PoolExhausted == free_list = <<>> /\ nodes = <<>>

ExhaustionStep ==
    ( \/ last'.op = "NewPage"
      \/ last'.op = "FetchPage" /\ last'.page_id \notin DOMAIN page_table )
    => /\ (last'.frame = NoFrame) <=> PoolExhausted
       /\ last'.frame = NoFrame =>
             /\ UNCHANGED <<pages, page_table, free_list, nodes, index,
                            disk, next_page_id, deallocated>>
             /\ last'.events = <<>>
       /\ \A f \in Frames :
             ( /\ free_list = <<>>
               /\ pages[f].pin_count = 0
               /\ \A g \in Frames \ {f} : pages[g].pin_count > 0 )
             => /\ last'.frame = f
                /\ last'.evicted = {pages[f].page_id}

NullIffExhausted == [][ExhaustionStep]_vars

\* NewPage has returned null
NewPageRefused ==
    /\ last.op = "NewPage"
    /\ last.frame = NoFrame
    /\ \A f \in Frames : pages[f].pin_count > 0

\* C8: UnpinPage on a resident page with pin_count 0 returns false and
\* changes nothing (pin_count stays 0, the dirty flag is not set, the
\* replacer is untouched); on a non-resident page it returns true and
\* changes nothing.
UnpinRefusedStep ==
    last'.op = "UnpinPage" =>
       LET p == last'.page_id
       IN /\ (p \in DOMAIN page_table /\ pages[page_table[p]].pin_count = 0)
                => /\ last'.ok = FALSE
                   /\ pages'[page_table[p]].pin_count = 0
                   /\ pages'[page_table[p]].is_dirty = pages[page_table[p]].is_dirty
                   /\ UNCHANGED <<pages, page_table, free_list, nodes, index,
                                  disk, next_page_id, deallocated>>
          /\ p \notin DOMAIN page_table
                => /\ last'.ok = TRUE
                   /\ UNCHANGED <<pages, page_table, free_list, nodes, index,
                                  disk, next_page_id, deallocated>>

PinCountNonNegative == \A f \in Frames : pages[f].pin_count >= 0

UnpinUnderflowRefused == [][UnpinRefusedStep]_vars /\ []PinCountNonNegative

\* UnpinPage(p, true) has returned false on a clean resident page
UnpinRefusedDirtyHint ==
    /\ last.op = "UnpinPage"
    /\ last.ok = FALSE
    /\ last.is_dirty
    /\ last.page_id \in DOMAIN page_table
    /\ ~pages[page_table[last.page_id]].is_dirty

\* C9: DeletePage on a pinned resident page returns false and changes
\* nothing; on a resident page with pin_count 0 it returns true,
\* deallocates the page, resets the frame, removes the page from the page
\* table and the frame from the replacer, and puts the frame on the free
\* list once.
Occurrences(seq, x) == Cardinality({ i \in 1 .. Len(seq) : seq[i] = x })

DeleteStep ==
    (last'.op = "DeletePage" /\ last'.page_id \in DOMAIN page_table) =>
       LET p == last'.page_id
           f == page_table[p]
       IN IF pages[f].pin_count > 0
          THEN /\ last'.ok = FALSE
               /\ last'.events = <<>>
               /\ UNCHANGED <<pages, page_table, free_list, nodes, index,
                              disk, next_page_id, deallocated>>
          ELSE /\ last'.ok = TRUE
               /\ Occurrences([i \in 1 .. Len(last'.events) |->
                                  <<last'.events[i].ev, last'.events[i].page_id>>],
                              <<"DeallocatePage", p>>) = 1
               /\ deallocated' = deallocated \cup {p}
               /\ pages'[f] = [page_id |-> INVALID_PAGE_ID, pin_count |-> 0,
                               is_dirty |-> FALSE, data |-> ZeroData]
               /\ \A g \in Frames \ {f} : pages'[g] = pages[g]
               /\ page_table' = MapErase(page_table, p)
               /\ f \notin SeqRange(nodes') /\ f \notin index'
               /\ Occurrences(free_list', f) = 1
               /\ free_list' = Append(free_list, f)

DeleteOnlyUnpinned == [][DeleteStep]_vars

\* DeletePage has been refused on a page pinned twice
DeleteRefusedPinnedTwice ==
    /\ last.op = "DeletePage"
    /\ last.ok = FALSE
    /\ last.page_id \in DOMAIN page_table
    /\ pages[page_table[last.page_id]].pin_count = 2

\* C10: when FlushAllPages returns, the device holds the buffer of every
\* resident page; when FlushPage(p) returns true the device holds p's
\* buffer and p is not dirty; FlushPage(p) on a non-resident page returns
\* false and writes nothing.
FlushMakesDiskCurrent ==
    /\ last.op = "FlushAllPages" =>
          \A p \in DOMAIN page_table : disk[p] = pages[page_table[p]].data
    /\ (last.op = "FlushPage" /\ last.ok) =>
          /\ last.page_id \in DOMAIN page_table
          /\ disk[last.page_id] = pages[page_table[last.page_id]].data
          /\ ~pages[page_table[last.page_id]].is_dirty
    /\ (last.op = "FlushPage" /\ last.page_id \notin DOMAIN page_table) =>
          /\ last.ok = FALSE
          /\ ~HasEvent("WritePage")

\* ---------------- SpecLatch: threads, the pool latch and the frame latches
\* A thread is outside the pool ("idle"), has called an entry point and
\* waits for latch_ ("lock"), or holds latch_ inside the entry point
\* ("exec").  frame_latch records the latches the callers hold on the
\* frames they have pinned; the WLatch / WUnlatch pair inside an entry
\* point is taken and released within the step that runs its body.
LatchFree(f) ==
    frame_latch[f].writer = NoThread /\ frame_latch[f].readers = {}

Holds(t, f) == frame_latch[f].writer = t \/ t \in frame_latch[f].readers

HeldFrames(t) == { f \in Frames : Holds(t, f) }

\* the result of the entry point thread t is in, on the current pool
Body(t) ==
    LET c == th[t]
    IN CASE c.op = "FetchPage"  -> FetchPageImpl(Pool, c.page_id)
         [] c.op = "NewPage"    -> NewPageImpl(Pool)
         [] c.op = "UnpinPage"  -> UnpinPageImpl(Pool, c.page_id, c.is_dirty)
         [] c.op = "FlushPage"  -> FlushPageImpl(Pool, c.page_id)
         [] c.op = "DeletePage" -> DeletePageImpl(Pool, c.page_id)

\* the frame whose WLatch the entry point of thread t takes, if any
LatchedFrame(t) ==
    LET c == th[t]
    IN IF c.op \in {"FetchPage", "NewPage"} THEN Body(t).frame
       ELSE IF c.page_id \in DOMAIN page_table THEN page_table[c.page_id]
       ELSE NoFrame

PinsOn(p) ==
    IF p \in DOMAIN page_table THEN pages[page_table[p]].pin_count ELSE 0

\* thread t calls an entry point and asks for latch_; the call reads
\* nothing before latch_ is granted, so which entry point it is shows
\* only then
Request(t) ==
    /\ th[t].pc = "idle"
    /\ th' = [th EXCEPT ![t].pc = "lock"]
    /\ UNCHANGED <<pages, page_table, free_list, nodes, index, disk,
                   next_page_id, deallocated, last, pins, rt, restvars,
                   pool_latch, frame_latch>>

\* std::unique_lock<std::mutex> lock(latch_) in entry point op(p, d)
AcquirePoolLatch(t, op, p, d) ==
    /\ th[t].pc = "lock"
    /\ pool_latch = NoThread
    /\ CASE op = "FetchPage"  -> p \in Allocated /\ PinsOn(p) < MaxPin
         [] op = "NewPage"    ->
              p = INVALID_PAGE_ID /\ next_page_id < MaxPages
         [] op = "UnpinPage"  -> p \in PageIds /\ th[t].pinned[p] > 0
         [] op = "FlushPage"  -> p \in Allocated
         [] op = "DeletePage" -> p \in Allocated
    /\ d => op = "UnpinPage"
    /\ pool_latch' = t
    /\ th' = [th EXCEPT ![t].pc = "exec", ![t].op = op, ![t].page_id = p,
                        ![t].is_dirty = d]
    /\ UNCHANGED <<pages, page_table, free_list, nodes, index, disk,
                   next_page_id, deallocated, last, pins, rt, restvars, frame_latch>>

\* the body runs once the WLatch of its frame is granted, and returns
ExecuteStep(t) ==
    LET c == th[t]
        r == Body(t)
        f == LatchedFrame(t)
        got == CASE c.op = "FetchPage" ->
                      IF r.frame # NoFrame THEN 1 ELSE 0
                 [] c.op = "NewPage" -> IF r.frame # NoFrame THEN 1 ELSE 0
                 [] c.op = "UnpinPage" ->
                      IF f # NoFrame /\ r.ok THEN -1 ELSE 0
                 [] OTHER -> 0
        q == IF c.op = "NewPage" THEN r.page_id ELSE c.page_id
    IN /\ c.pc = "exec"
       /\ f # NoFrame => LatchFree(f)
       /\ InstallPool(r.b)
       /\ pool_latch' = NoThread
       /\ th' = [th EXCEPT ![t] =
                   [IdleThread EXCEPT !.pinned =
                       IF got = 0 THEN c.pinned
                       ELSE [c.pinned EXCEPT ![q] = @ + got]]]
       /\ UNCHANGED <<pins, rt, restvars, frame_latch>>

Execute(t) == ExecuteStep(t) /\ last' = last

\* a thread latches the frame of a page it has pinned (Page::WLatch)
WLatch(t, p) ==
    /\ th[t].pc = "idle"
    /\ th[t].pinned[p] > 0
    /\ p \in DOMAIN page_table
    /\ LatchFree(page_table[p])
    /\ frame_latch' = [frame_latch EXCEPT ![page_table[p]].writer = t]
    /\ UNCHANGED <<pages, page_table, free_list, nodes, index, disk,
                   next_page_id, deallocated, last, pins, rt, restvars, pool_latch, th>>

\* Page::RLatch
RLatch(t, p) ==
    /\ th[t].pc = "idle"
    /\ th[t].pinned[p] > 0
    /\ p \in DOMAIN page_table
    /\ frame_latch[page_table[p]].writer = NoThread
    /\ t \notin frame_latch[page_table[p]].readers
    /\ frame_latch' = [frame_latch EXCEPT ![page_table[p]].readers = @ \cup {t}]
    /\ UNCHANGED <<pages, page_table, free_list, nodes, index, disk,
                   next_page_id, deallocated, last, pins, rt, restvars, pool_latch, th>>

\* Page::WUnlatch / Page::RUnlatch
Unlatch(t, f) ==
    /\ th[t].pc = "idle"
    /\ Holds(t, f)
    /\ frame_latch' = [frame_latch EXCEPT ![f] =
                          [writer |-> NoThread, readers |-> @.readers \ {t}]]
    /\ UNCHANGED <<pages, page_table, free_list, nodes, index, disk,
                   next_page_id, deallocated, last, pins, rt, restvars, pool_latch, th>>

PoolOps == {"FetchPage", "NewPage", "UnpinPage", "FlushPage", "DeletePage"}

NextLatch ==
    \/ \E t \in Threads : Request(t)
    \/ \E t \in Threads, op \in PoolOps,
          p \in PageIds \cup {INVALID_PAGE_ID}, d \in BOOLEAN :
          AcquirePoolLatch(t, op, p, d)
    \/ \E t \in Threads : Execute(t)
    \/ \E t \in Threads, p \in PageIds : WLatch(t, p)
    \/ \E t \in Threads, p \in PageIds : RLatch(t, p)
    \/ \E t \in Threads, f \in Frames : Unlatch(t, f)

SpecLatch == Init /\ [][NextLatch]_vars

\* --------------------------------- SpecLRU: the replacer called directly
\* last holds the call that has returned: its frame id (for Victim the
\* id written through the pointer, NoFrame when none was written), its
\* result, the candidate sequence before the call, and the call before it.
LRUFrames == 0 .. (NumPages - 1)

LRUCall(op, f, ok) ==
    [op |-> op, frame |-> f, ok |-> ok, before |-> nodes,
     prev |-> IF last.op = "Idle"
              THEN [op |-> "Idle", frame |-> NoFrame, before |-> <<>>]
              ELSE [op |-> last.op, frame |-> last.frame,
                    before |-> last.before]]

nonlruvars == <<pages, page_table, free_list, disk, next_page_id,
                deallocated, pins, rt, latchvars, treevars, callvars>>

Victim ==
    LET v == LRUVictim([nodes |-> nodes, index |-> index])
    IN /\ nodes' = v.r.nodes
       /\ index' = v.r.index
       /\ last' = LRUCall("Victim", v.frame_id, v.ok)
       /\ unpin_order' = IF v.ok THEN SeqRemoveFirst(unpin_order, v.frame_id)
                         ELSE unpin_order
       /\ UNCHANGED nonlruvars

Pin(f) ==
    LET r == LRUPin([nodes |-> nodes, index |-> index], f)
    IN /\ nodes' = r.nodes
       /\ index' = r.index
       /\ last' = LRUCall("Pin", f, TRUE)
       /\ unpin_order' = SeqRemoveFirst(unpin_order, f)
       /\ UNCHANGED nonlruvars

Unpin(f) ==
    LET r == LRUUnpin([nodes |-> nodes, index |-> index], f)
    IN /\ nodes' = r.nodes
       /\ index' = r.index
       /\ last' = LRUCall("Unpin", f, TRUE)
       /\ unpin_order' = IF f \in SeqRange(unpin_order) THEN unpin_order
                         ELSE Append(unpin_order, f)
       /\ UNCHANGED nonlruvars

NextLRU ==
    \/ Victim
    \/ \E f \in LRUFrames : Pin(f)
    \/ \E f \in LRUFrames : Unpin(f)

SpecLRU == Init /\ [][NextLRU]_vars

\* ------------------------------------------------------ B+ tree pages
\* A page is a record of its header fields and its array_ of entries
\* [key, value].  array_ has a slot for every index the operations touch;
\* the slots at and beyond size keep whatever was last written there.
Keys == 0 .. MaxKey
Slots == 0 .. (MaxSize + 1)

\* KeyComparator: negative, zero or positive
comparator(a, b) == IF a < b THEN -1 ELSE IF a > b THEN 1 ELSE 0

\* the elements of a set of keys in ascending order
RECURSIVE Ascending(_)
Ascending(S) ==
    IF S = {} THEN <<>>
    ELSE LET m == CHOOSE x \in S : \A y \in S : x <= y
         IN <<m>> \o Ascending(S \ {m})

\* ---- internal page
\* while (lo < hi) of BPlusTreeInternalPage::Lookup
RECURSIVE InternalLookupLoop(_, _, _, _)
InternalLookupLoop(array, key, lo, hi) ==
    IF lo < hi
    THEN LET mid == (lo + hi) \div 2
         IN IF comparator(array[mid].key, key) > 0
            THEN InternalLookupLoop(array, key, lo, mid)
            ELSE InternalLookupLoop(array, key, mid + 1, hi)
    ELSE lo

InternalPageLookup(page, key) ==
    LET lo == InternalLookupLoop(page.array, key, 1, page.size - 1)
    IN IF comparator(page.array[lo].key, key) > 0
       THEN page.array[lo - 1].value
       ELSE page.array[lo].value

\* ---- header (BPlusTreePage)
IsEmpty(page) == page.size = 0
NeedToSplit(page) == page.size > page.max_size
CanInsert(page, n) == page.size + n <= page.max_size + 1
CanInsertWithoutSplit(page, n) == page.size + n <= page.max_size

\* a page buffer as NewPage leaves it (Page::ResetMemory)
ZeroEntry == [key |-> 0, value |-> 0]
ZeroArray == [i \in Slots |-> ZeroEntry]

\* The page operations work on b = [tree, events]: the pages by page id,
\* and the calls made on the buffer pool manager so far.
PoolCall(call, page_id, is_dirty) ==
    [call |-> call, page_id |-> page_id, is_dirty |-> is_dirty]

\* the fetch is taken to succeed (the assert on it holds)
UpdateParent(b, child_page_id, parent_page_id) ==
    [tree |-> IF child_page_id \in DOMAIN b.tree
              THEN [b.tree EXCEPT ![child_page_id].parent_page_id =
                                      parent_page_id]
              ELSE b.tree,
     events |-> b.events \o
                <<PoolCall("FetchPage", child_page_id, FALSE),
                  PoolCall("UnpinPage", child_page_id, TRUE)>>]

\* UpdateParent for the children in slots from .. to - 1 of array, in turn
RECURSIVE UpdateParents(_, _, _, _, _)
UpdateParents(b, array, from, to, parent_page_id) ==
    IF from >= to THEN b
    ELSE UpdateParents(UpdateParent(b, array[from].value, parent_page_id),
                       array, from + 1, to, parent_page_id)

InternalInit(buffer, page_id, parent_id, max_size) ==
    [page_type |-> "internal", size |-> 0, max_size |-> max_size,
     page_id |-> page_id, parent_page_id |-> parent_id,
     array |-> buffer.array]

InternalMoveHalfTo_KeepMore(b, this, recipient) ==
    LET size == b.tree[this].size
        half == (size + 1) \div 2 + 1
        need_move == size - half
        from == b.tree[this].array
        b1 == [b EXCEPT !.tree[recipient].array =
                  [i \in Slots |-> IF i < need_move THEN from[half + i]
                                   ELSE @[i]]]
        b2 == UpdateParents(b1, from, half, size, b.tree[recipient].page_id)
    IN [b2 EXCEPT !.tree[this].size = half,
                  !.tree[recipient].size = need_move]

InternalMoveHalfTo(b, this, recipient) ==
    LET size == b.tree[this].size
        half == size \div 2
        need_move == size - half
        from == b.tree[this].array
        b1 == [b EXCEPT !.tree[recipient].array =
                  [i \in Slots |-> IF i < need_move THEN from[half + i]
                                   ELSE @[i]]]
        b2 == UpdateParents(b1, from, half, size, b.tree[recipient].page_id)
    IN [b2 EXCEPT !.tree[this].size = half,
                  !.tree[recipient].size = need_move]

InternalMoveAllTo_NoMiddleKey(b, this, recipient, middle_key) ==
    LET size == b.tree[this].size
        recipient_size == b.tree[recipient].size
        from == b.tree[this].array
        b2 == [b EXCEPT !.tree[recipient].array =
                  [i \in Slots |->
                      IF i >= recipient_size /\ i < recipient_size + size
                      THEN from[i - recipient_size] ELSE @[i]]]
        b3 == UpdateParents(b2, from, 0, size, b.tree[recipient].page_id)
    IN [b3 EXCEPT !.tree[recipient].size = @ + size,
                  !.tree[this].size = 0]

InternalMoveAllTo(b, this, recipient, middle_key) ==
    LET size == b.tree[this].size
        recipient_size == b.tree[recipient].size
        recipient_page_id == b.tree[recipient].page_id
        b1 == [b EXCEPT !.tree[this].array[0].key = middle_key]
        from == b1.tree[this].array
        b2 == [b1 EXCEPT !.tree[recipient].array =
                  [i \in Slots |->
                      IF i >= recipient_size /\ i < recipient_size + size
                      THEN from[i - recipient_size] ELSE @[i]]]
        b3 == UpdateParents(b2, from, 0, size, recipient_page_id)
    IN [b3 EXCEPT !.tree[recipient].size = @ + size,
                  !.tree[this].size = 0]

InternalCopyLastFrom(b, this, pair) ==
    LET size == b.tree[this].size
        b1 == [b EXCEPT !.tree[this].array[size] = pair]
        b2 == UpdateParent(b1, pair.value, b.tree[this].page_id)
    IN [b2 EXCEPT !.tree[this].size = @ + 1]

InternalMoveFirstToEndOf(b, this, recipient, middle_key) ==
    LET size == b.tree[this].size
        item == [b.tree[this].array[0] EXCEPT !.key = middle_key]
        b1 == [b EXCEPT !.tree[this].array =
                  [i \in Slots |-> IF i < size - 1 THEN @[i + 1] ELSE @[i]]]
        b2 == InternalCopyLastFrom(b1, recipient, item)
    IN [b2 EXCEPT !.tree[this].size = @ - 1]

InternalCopyFirstFrom(b, this, pair) ==
    LET size == b.tree[this].size
        b1 == [b EXCEPT !.tree[this].array =
                  [i \in Slots |->
                      IF i >= 1 /\ i <= size THEN @[i - 1]
                      ELSE IF i = 0 THEN pair ELSE @[i]]]
        b2 == UpdateParent(b1, pair.value, b.tree[this].page_id)
    IN [b2 EXCEPT !.tree[this].size = @ + 1]

InternalMoveLastToFrontOf(b, this, recipient, middle_key) ==
    LET size == b.tree[this].size
        item == b.tree[this].array[size - 1]
        b1 == InternalCopyFirstFrom(b, recipient, item)
        b2 == [b1 EXCEPT !.tree[recipient].array[1].key = middle_key]
    IN [b2 EXCEPT !.tree[this].size = @ - 1]

\* items is what the pointer gives: items[0], items[1], ...
InternalCopyNFrom_NoAdopt(b, this, items, size) ==
    LET original_size == b.tree[this].size
        b1 == [b EXCEPT !.tree[this].array =
                  [i \in Slots |->
                      IF i >= original_size /\ i < original_size + size
                      THEN items[i - original_size] ELSE @[i]]]
    IN [b1 EXCEPT !.tree[this].size = @ + size]

InternalCopyNFrom(b, this, items, size) ==
    LET original_size == b.tree[this].size
        page_id == b.tree[this].page_id
        b1 == [b EXCEPT !.tree[this].array =
                  [i \in Slots |->
                      IF i >= original_size /\ i < original_size + size
                      THEN items[i - original_size] ELSE @[i]]]
        b2 == UpdateParents(b1, items, 0, size, page_id)
    IN [b2 EXCEPT !.tree[this].size = @ + size]

\* ---- leaf page
LeafInit(buffer, page_id, parent_id, max_size) ==
    [page_type |-> "leaf", size |-> 0, max_size |-> max_size,
     page_id |-> page_id, parent_page_id |-> parent_id,
     next_page_id |-> INVALID_PAGE_ID, array |-> buffer.array]

\* while (lo < hi) of BPlusTreeLeafPage::KeyIndex
RECURSIVE LeafKeyIndexLoop(_, _, _, _)
LeafKeyIndexLoop(array, key, lo, hi) ==
    IF lo < hi
    THEN LET mid == (lo + hi) \div 2
         IN IF comparator(array[mid].key, key) >= 0
            THEN LeafKeyIndexLoop(array, key, lo, mid)
            ELSE LeafKeyIndexLoop(array, key, mid + 1, hi)
    ELSE lo

LeafKeyIndex_Append(page, key) == page.size

LeafKeyIndex(page, key) ==
    LET lo == LeafKeyIndexLoop(page.array, key, 0, page.size - 1)
    IN IF comparator(page.array[lo].key, key) >= 0 THEN lo ELSE lo + 1

\* the page after the call and the value the call returns
LeafInsert(page, key, value) ==
    LET size == page.size
        idx == LeafKeyIndex(page, key)
        array == [i \in Slots |->
                    IF i >= idx + 1 /\ i <= size THEN page.array[i - 1]
                    ELSE IF i = idx THEN [key |-> key, value |-> value]
                    ELSE page.array[i]]
    IN [page |-> [page EXCEPT !.array = array, !.size = size + 1],
        result |-> size + 1]

LeafRemoveAndDeleteRecord(page, key) ==
    LET size == page.size
        idx == LeafKeyIndex(page, key)
    IN IF idx >= size \/ comparator(page.array[idx].key, key) # 0
       THEN [page |-> page, result |-> size]
       ELSE [page |-> [page EXCEPT
                         !.array = [i \in Slots |->
                                      IF i >= idx /\ i < size - 1
                                      THEN page.array[i + 1]
                                      ELSE page.array[i]],
                         !.size = size - 1],
             result |-> size - 1]

LeafMoveHalfTo(b, this, recipient) ==
    LET size == b.tree[this].size
        half == size \div 2
        need_move == size - half
        from == b.tree[this].array
    IN [b EXCEPT !.tree[recipient].array =
                    [i \in Slots |-> IF i < need_move THEN from[half + i]
                                     ELSE @[i]],
                 !.tree[this].size = half,
                 !.tree[recipient].size = need_move,
                 !.tree[recipient].next_page_id = b.tree[this].next_page_id,
                 !.tree[this].next_page_id = b.tree[recipient].page_id]

LeafMoveAllTo_KeepNext(b, this, recipient) ==
    LET size == b.tree[this].size
        recipient_size == b.tree[recipient].size
        from == b.tree[this].array
    IN [b EXCEPT !.tree[recipient].array =
                    [i \in Slots |->
                        IF i >= recipient_size /\ i < recipient_size + size
                        THEN from[i - recipient_size] ELSE @[i]],
                 !.tree[this].size = 0,
                 !.tree[recipient].size = @ + size]

LeafMoveAllTo(b, this, recipient) ==
    LET size == b.tree[this].size
        recipient_size == b.tree[recipient].size
        from == b.tree[this].array
    IN [b EXCEPT !.tree[recipient].array =
                    [i \in Slots |->
                        IF i >= recipient_size /\ i < recipient_size + size
                        THEN from[i - recipient_size] ELSE @[i]],
                 !.tree[this].size = 0,
                 !.tree[recipient].size = @ + size,
                 !.tree[recipient].next_page_id = b.tree[this].next_page_id]

\* for (i = 0; i < GetSize(); i++) of BPlusTreeInternalPage::ValueIndex
RECURSIVE InternalValueIndexLoop(_, _, _)
InternalValueIndexLoop(page, value, i) ==
    IF i >= page.size THEN -1
    ELSE IF page.array[i].value = value THEN i
    ELSE InternalValueIndexLoop(page, value, i + 1)

InternalValueIndex(page, value) == InternalValueIndexLoop(page, value, 0)

\* the page after the call and the value the call returns
InternalInsertNodeAfter(page, old_value, new_key, new_value) ==
    LET idx == InternalValueIndex(page, old_value)
        size == page.size
        array == [i \in Slots |->
                    IF i > idx + 1 /\ i <= size THEN page.array[i - 1]
                    ELSE IF i = idx
                    THEN [key |-> new_key, value |-> new_value]
                    ELSE page.array[i]]
    IN [page |-> [page EXCEPT !.array = array, !.size = size + 1],
        result |-> size + 1]

\* the value is written through the pointer only on a hit
LeafLookup(page, key) ==
    LET idx == LeafKeyIndex(page, key)
    IN IF idx >= page.size \/ comparator(page.array[idx].key, key) # 0
       THEN [found |-> FALSE, value |-> 0]
       ELSE [found |-> TRUE, value |-> page.array[idx].value]

LeafCopyLastFrom(b, this, item) ==
    LET size == b.tree[this].size
    IN [b EXCEPT !.tree[this].array[size] = item,
                 !.tree[this].size = @ + 1]

LeafMoveFirstToEndOf(b, this, recipient) ==
    LET size == b.tree[this].size
        item == b.tree[this].array[0]
        b1 == [b EXCEPT !.tree[this].array =
                  [i \in Slots |-> IF i < size - 1 THEN @[i + 1] ELSE @[i]]]
        b2 == LeafCopyLastFrom(b1, recipient, item)
    IN [b2 EXCEPT !.tree[this].size = @ - 1]

LeafCopyFirstFrom(b, this, item) ==
    LET size == b.tree[this].size
    IN [b EXCEPT !.tree[this].array =
                    [i \in Slots |->
                        IF i >= 1 /\ i <= size THEN @[i - 1]
                        ELSE IF i = 0 THEN item ELSE @[i]],
                 !.tree[this].size = @ + 1]

LeafMoveLastToFrontOf(b, this, recipient) ==
    LET item == b.tree[this].array[0]
        b1 == [b EXCEPT !.tree[this].size = @ - 1]
    IN LeafCopyFirstFrom(b1, recipient, item)

\* -------------------- SpecLookup: Lookup on the internal pages of a bound
\* The page has page id 0 and children 1 .. size in slot order; its keys
\* at 1 .. size-1 ascend strictly; the key of slot 0 and the entry left
\* in the slots from size on are arbitrary.
LookupPage(size, keys, dummy, stale) ==
    [page_type |-> "internal", size |-> size, max_size |-> MaxSize,
     page_id |-> 0, parent_page_id |-> INVALID_PAGE_ID,
     array |-> [i \in Slots |->
                  IF i = 0 THEN [key |-> dummy, value |-> 1]
                  ELSE IF i < size THEN [key |-> keys[i], value |-> i + 1]
                  ELSE stale]]

LookupPages ==
    { LookupPage(Cardinality(K) + 1, Ascending(K), dummy, stale) :
        K \in { K \in SUBSET Keys : Cardinality(K) <= MaxSize },
        dummy \in {0, MaxKey},
        stale \in [key : Keys, value : 1 .. (MaxSize + 1)] }

InitLookup ==
    /\ InitPool
    /\ InitAux
    /\ tree \in { [p \in {0} |-> page] : page \in LookupPages }

offtreevars == <<pages, page_table, free_list, nodes, index, disk,
                 next_page_id, deallocated, pins, rt, latchvars, lruvars>>
nontreevars == <<offtreevars, callvars>>

InternalLookup(key) ==
    /\ last' = [op |-> "Lookup", key |-> key,
                result |-> InternalPageLookup(tree[0], key)]
    /\ UNCHANGED <<tree, nontreevars>>

NextLookup == \E key \in Keys : InternalLookup(key)

SpecLookup == InitLookup /\ [][NextLookup]_vars

\* --------------------------------------- claims on internal-page Lookup
\* the indices in [1, size) whose key is greater than key
GreaterKeys(page, key) ==
    { i \in 1 .. (page.size - 1) : page.array[i].key > key }

\* C16: for every internal page of size >= 1 with strictly ascending keys
\* at [1, size) and every key k, Lookup(k) returns the child of entry
\* i - 1 for the smallest i in [1, size) whose key is greater than k, or
\* the child of the last entry if there is none; nothing outside the
\* entries [0, size), and not the key of slot 0, decides the result.
LookupFindsChild ==
    last.op = "Lookup" =>
        LET page == tree[0]
            G == GreaterKeys(page, last.key)
            i == IF G = {} THEN page.size
                 ELSE CHOOSE x \in G : \A y \in G : x <= y
        IN last.result = page.array[i - 1].value

\* ------------------------ SpecMove: split and merge between two pages
\* Pages 0 and 1 are two leaves or two internal pages with any sizes up
\* to max_size + 1.  Slot i of page p holds key EntryKey(p, i); a leaf
\* stores the key's record id with it, an internal page the id of a child
\* page of its own.  Slots from size on are zeroed.  last holds the call
\* that has returned and the pages before it.
EntryKey(p, i) == p * (MaxSize + 2) + i
RidOf(key) == key + 2 * (MaxSize + 2)
ChildOf(p, i) == 2 + EntryKey(p, i)

MovePage(page_type, p, size, next) ==
    LET array == [i \in Slots |->
                    IF i >= size THEN ZeroEntry
                    ELSE [key |-> EntryKey(p, i),
                          value |-> IF page_type = "leaf"
                                    THEN RidOf(EntryKey(p, i))
                                    ELSE ChildOf(p, i)]]
    IN IF page_type = "leaf"
       THEN [LeafInit([array |-> array], p, INVALID_PAGE_ID, MaxSize)
                EXCEPT !.size = size, !.next_page_id = next]
       ELSE [InternalInit([array |-> array], p, INVALID_PAGE_ID, MaxSize)
                EXCEPT !.size = size]

\* the header of a child page
ChildPage(page_id, parent_id) ==
    [page_type |-> "child", page_id |-> page_id, parent_page_id |-> parent_id]

MoveTree(page_type, size0, size1, next) ==
    LET children == IF page_type = "leaf" THEN {}
                    ELSE { ChildOf(0, i) : i \in 0 .. (size0 - 1) } \cup
                         { ChildOf(1, i) : i \in 0 .. (size1 - 1) }
    IN [p \in {0, 1} \cup children |->
          IF p = 0 THEN MovePage(page_type, 0, size0, next)
          ELSE IF p = 1 THEN MovePage(page_type, 1, size1, INVALID_PAGE_ID)
          ELSE ChildPage(p, IF p < ChildOf(1, 0) THEN 0 ELSE 1)]

\* the leaf after page 0, when there is one, has page id 2
InitMove ==
    /\ InitPool
    /\ InitAux
    /\ \E page_type \in {"leaf", "internal"},
          size0, size1 \in 0 .. (MaxSize + 1),
          next \in {INVALID_PAGE_ID, 1, 2} :
          /\ page_type = "internal" => next = INVALID_PAGE_ID
          /\ tree = MoveTree(page_type, size0, size1, next)

MoveCall(op, this, recipient, middle_key, b) ==
    [op |-> op, this |-> this, recipient |-> recipient,
     middle_key |-> middle_key, before |-> tree, events |-> b.events]

TreeNow == [tree |-> tree, events |-> <<>>]

LeafMoveHalf(this, recipient) ==
    LET b == LeafMoveHalfTo(TreeNow, this, recipient)
    IN /\ tree[this].page_type = "leaf"
       /\ NeedToSplit(tree[this])
       /\ IsEmpty(tree[recipient])
       /\ tree' = b.tree
       /\ last' = MoveCall("MoveHalfTo", this, recipient, 0, b)
       /\ UNCHANGED nontreevars

InternalMoveHalf(this, recipient) ==
    LET b == InternalMoveHalfTo(TreeNow, this, recipient)
    IN /\ tree[this].page_type = "internal"
       /\ NeedToSplit(tree[this])
       /\ IsEmpty(tree[recipient])
       /\ tree' = b.tree
       /\ last' = MoveCall("MoveHalfTo", this, recipient, 0, b)
       /\ UNCHANGED nontreevars

LeafMoveAll(this, recipient) ==
    LET b == LeafMoveAllTo(TreeNow, this, recipient)
    IN /\ tree[this].page_type = "leaf"
       /\ CanInsertWithoutSplit(tree[recipient], tree[this].size)
       /\ tree' = b.tree
       /\ last' = MoveCall("MoveAllTo", this, recipient, 0, b)
       /\ UNCHANGED nontreevars

InternalMoveAll(this, recipient, middle_key) ==
    LET b == InternalMoveAllTo(TreeNow, this, recipient, middle_key)
    IN /\ tree[this].page_type = "internal"
       /\ CanInsertWithoutSplit(tree[recipient], tree[this].size)
       /\ tree' = b.tree
       /\ last' = MoveCall("MoveAllTo", this, recipient, middle_key, b)
       /\ UNCHANGED nontreevars

NextMove ==
    \E this, recipient \in {0, 1} :
        /\ this # recipient
        /\ \/ LeafMoveHalf(this, recipient)
           \/ InternalMoveHalf(this, recipient)
           \/ LeafMoveAll(this, recipient)
           \/ \E middle_key \in Keys :
                 InternalMoveAll(this, recipient, middle_key)

SpecMove == InitMove /\ [][NextMove]_vars

\* --------------------------------------------- claims on split and merge
\* the entries of a page, first to last
Entries(page) == [i \in 1 .. page.size |-> page.array[i - 1]]

CeilHalf(n) == (n + 1) \div 2

\* C17: MoveHalfTo on a page of max_size + 1 entries with an empty
\* recipient leaves the first floor(size/2) entries in the donor and the
\* rest, in their order, in the recipient: nothing is lost or duplicated
\* and both sizes are within [ceil(max_size/2), max_size]; for leaves the
\* recipient takes the donor's old next_page_id and the donor points to
\* the recipient.
SplitKeepsFirstHalf ==
    last.op = "MoveHalfTo" =>
        LET old == last.before[last.this]
            donor == tree[last.this]
            recipient == tree[last.recipient]
            half == old.size \div 2
        IN /\ old.size = old.max_size + 1
           /\ Entries(donor) = SubSeq(Entries(old), 1, half)
           /\ Entries(recipient) = SubSeq(Entries(old), half + 1, old.size)
           /\ Entries(donor) \o Entries(recipient) = Entries(old)
           /\ donor.size \in CeilHalf(old.max_size) .. old.max_size
           /\ recipient.size \in CeilHalf(old.max_size) .. old.max_size
           /\ donor.page_type = "leaf" =>
                 /\ recipient.next_page_id = old.next_page_id
                 /\ donor.next_page_id = recipient.page_id

\* an overfull leaf with a successor in the chain has been split
LeafSplitInsideChain ==
    /\ last.op = "MoveHalfTo"
    /\ tree[last.this].page_type = "leaf"
    /\ last.before[last.this].next_page_id = 2
    /\ tree[last.recipient].size = MaxSize + 1 - (MaxSize + 1) \div 2

\* the entries MoveAllTo hands over: those of the donor, the first of
\* them under the middle key when the pages are internal
MovedEntries(old, middle_key) ==
    IF old.page_type = "internal" /\ old.size > 0
    THEN [Entries(old) EXCEPT ![1].key = middle_key]
    ELSE Entries(old)

\* C18: A.MoveAllTo(B) makes B's entries those it had followed by all of
\* A's in order (for internal pages the first moved entry carries the
\* middle key) and leaves A with size 0; for leaves B takes A's
\* next_page_id.
MergeAppendsAll ==
    last.op = "MoveAllTo" =>
        LET oldA == last.before[last.this]
            oldB == last.before[last.recipient]
            A == tree[last.this]
            B == tree[last.recipient]
        IN /\ Entries(B) = Entries(oldB) \o MovedEntries(oldA, last.middle_key)
           /\ A.size = 0
           /\ A.page_type = "leaf" => B.next_page_id = oldA.next_page_id

\* two internal pages that both held entries have been merged, under a
\* middle key other than the key left in the donor's slot 0
InternalMergeWithMiddleKey ==
    /\ last.op = "MoveAllTo"
    /\ tree[last.this].page_type = "internal"
    /\ last.before[last.this].size >= 2
    /\ last.before[last.recipient].size >= 1
    /\ last.middle_key # last.before[last.this].array[0].key

\* ------------------------- SpecLeaf: Insert and RemoveAndDeleteRecord
\* Page 0 is a leaf initialized on a new, zeroed page.  A caller inserts
\* only while the leaf can take an entry and only keys that are not among
\* its entries.  last holds the call that has returned, its result and
\* the leaf before it.
InitLeaf ==
    /\ InitPool
    /\ InitAux
    /\ tree = [p \in {0} |->
                 LeafInit([array |-> ZeroArray], 0, INVALID_PAGE_ID, MaxSize)]

KeysOf(page) == { page.array[i].key : i \in 0 .. (page.size - 1) }

LeafCall(op, key, r) ==
    [op |-> op, key |-> key, result |-> r.result, before |-> tree[0]]

Insert(key) ==
    LET r == LeafInsert(tree[0], key, RidOf(key))
    IN /\ CanInsert(tree[0], 1)
       /\ key \notin KeysOf(tree[0])
       /\ tree' = [tree EXCEPT ![0] = r.page]
       /\ last' = LeafCall("Insert", key, r)
       /\ UNCHANGED nontreevars

RemoveAndDeleteRecord(key) ==
    LET r == LeafRemoveAndDeleteRecord(tree[0], key)
    IN /\ tree' = [tree EXCEPT ![0] = r.page]
       /\ last' = LeafCall("RemoveAndDeleteRecord", key, r)
       /\ UNCHANGED nontreevars

NextLeaf ==
    \/ \E key \in Keys : Insert(key)
    \/ \E key \in Keys : RemoveAndDeleteRecord(key)

SpecLeaf == InitLeaf /\ [][NextLeaf]_vars

\* ------------------------------------------- claims on the leaf's order
StrictlyAscending(page) ==
    \A i, j \in 0 .. (page.size - 1) :
        i < j => page.array[i].key < page.array[j].key

\* C19: from an initialized leaf, any Insert / RemoveAndDeleteRecord calls
\* that respect the capacity and never insert a key the leaf holds keep
\* the keys at [0, size) strictly ascending; Insert returns the size
\* after it, RemoveAndDeleteRecord the resulting size, which is the old
\* size when the key is absent.
LeafStaysOrdered ==
    /\ StrictlyAscending(tree[0])
    /\ last.op = "Insert" =>
          /\ last.result = tree[0].size
          /\ tree[0].size = last.before.size + 1
    /\ last.op = "RemoveAndDeleteRecord" =>
          /\ last.result = tree[0].size
          /\ tree[0].size = IF last.key \in KeysOf(last.before)
                            THEN last.before.size - 1
                            ELSE last.before.size

\* a key has been inserted between two keys of the leaf
InsertedBetween ==
    /\ last.op = "Insert"
    /\ last.result = 3
    /\ tree[0].array[1].key = last.key

\* --------------------- SpecChain: splits and merges along the leaf chain
\* The leaves 0 .. n-1 start linked in this order through next_page_id,
\* with any sizes up to max_size + 1 and with the keys 0, 1, 2, ... laid
\* out along the chain.  A split moves half of an overfull leaf into a
\* leaf initialized on a new page; a merge moves a leaf into its left
\* sibling.  last holds the call that has returned, the number of keys
\* stored and the leaves merged away so far.
RECURSIVE SumSizes(_)
SumSizes(sizes) ==
    IF sizes = <<>> THEN 0 ELSE Head(sizes) + SumSizes(Tail(sizes))

ChainLeaf(p, n, sizes) ==
    LET first == SumSizes(SubSeq(sizes, 1, p))
        array == [i \in Slots |->
                    IF i >= sizes[p + 1] THEN ZeroEntry
                    ELSE [key |-> first + i, value |-> RidOf(first + i)]]
    IN [LeafInit([array |-> array], p, INVALID_PAGE_ID, MaxSize)
           EXCEPT !.size = sizes[p + 1],
                  !.next_page_id = IF p + 1 < n THEN p + 1
                                   ELSE INVALID_PAGE_ID]

InitChain ==
    /\ InitAux
    /\ InitMembers
    /\ \E n \in 1 .. (MaxLeaves - 1) :
          \E sizes \in [1 .. n -> 0 .. (MaxSize + 1)] :
             /\ tree = [p \in 0 .. (n - 1) |-> ChainLeaf(p, n, sizes)]
             /\ last = [op |-> "Init", this |-> INVALID_PAGE_ID,
                        recipient |-> INVALID_PAGE_ID,
                        stored |-> SumSizes(sizes), merged |-> {}]

\* the leaves met from leaf p on, following next_page_id for n steps
RECURSIVE Walk(_, _, _)
Walk(t, p, n) ==
    IF n = 0 \/ p \notin DOMAIN t THEN <<>>
    ELSE <<p>> \o Walk(t, t[p].next_page_id, n - 1)

\* the chain from the leftmost leaf
Chain == Walk(tree, 0, Cardinality(DOMAIN tree))

\* the page id AllocatePage gives to the next new page
NewLeafId == Cardinality(DOMAIN tree)

Split(this) ==
    LET recipient == NewLeafId
        fresh == LeafInit([array |-> ZeroArray], recipient,
                          tree[this].parent_page_id, MaxSize)
        t == [p \in DOMAIN tree \cup {recipient} |->
                IF p = recipient THEN fresh ELSE tree[p]]
        b == LeafMoveHalfTo([tree |-> t, events |-> <<>>], this, recipient)
    IN /\ this \in SeqRange(Chain)
       /\ NeedToSplit(tree[this])
       /\ recipient < MaxLeaves
       /\ tree' = b.tree
       /\ last' = [last EXCEPT !.op = "MoveHalfTo", !.this = this,
                               !.recipient = recipient]
       /\ UNCHANGED nontreevars

Merge(this) ==
    \E i \in 1 .. (Len(Chain) - 1) :
        LET recipient == Chain[i]
            b == LeafMoveAllTo(TreeNow, this, recipient)
        IN /\ Chain[i + 1] = this
           /\ CanInsertWithoutSplit(tree[recipient], tree[this].size)
           /\ tree' = b.tree
           /\ last' = [last EXCEPT !.op = "MoveAllTo", !.this = this,
                                   !.recipient = recipient,
                                   !.merged = @ \cup {this}]
           /\ UNCHANGED nontreevars

NextChain ==
    \/ \E this \in 0 .. (MaxLeaves - 1) : Split(this)
    \/ \E this \in 0 .. (MaxLeaves - 1) : Merge(this)

SpecChain == InitChain /\ [][NextChain]_vars

\* ------------------------------------------------ claims on the leaf chain
\* the keys met along the chain, leaf by leaf
RECURSIVE ChainKeys(_)
ChainKeys(leaves) ==
    IF leaves = <<>> THEN <<>>
    ELSE [i \in 1 .. tree[Head(leaves)].size |->
             tree[Head(leaves)].array[i - 1].key]
         \o ChainKeys(Tail(leaves))

\* C20: starting from a key-ordered chain of leaves, after any splits
\* (MoveHalfTo into a freshly initialized leaf) and merges (MoveAllTo
\* into the left sibling), following next_page_id from the leftmost leaf
\* meets every stored key exactly once, in ascending order, and ends at a
\* leaf whose next_page_id is invalid; no merged-away leaf is met.
ChainVisitsKeysInOrder ==
    /\ ChainKeys(Chain) = [i \in 1 .. last.stored |-> i - 1]
    /\ Chain # <<>>
    /\ tree[Chain[Len(Chain)]].next_page_id = INVALID_PAGE_ID
    /\ SeqRange(Chain) \cap last.merged = {}

\* a leaf between two others has been merged into its left sibling after
\* an earlier split
MergedInsideChainAfterSplit ==
    /\ last.op = "MoveAllTo"
    /\ tree[last.recipient].next_page_id # INVALID_PAGE_ID
    /\ last.recipient # 0
    /\ tree[last.recipient].size > 0
    /\ Cardinality(DOMAIN tree) = MaxLeaves

\* ------------- SpecInsertAfter: InsertNodeAfter on the internal pages
\* The pages are those of SpecLookup.  The new child is a page id that is
\* not among the page's children.  last holds the call that has returned,
\* its result and the page before it.
ChildrenOf(page) == { page.array[i].value : i \in 0 .. (page.size - 1) }

NewChildId(page) == MaxSize + 1 + page.size

InsertNodeAfter(old_value, new_key) ==
    LET new_value == NewChildId(tree[0])
        r == InternalInsertNodeAfter(tree[0], old_value, new_key, new_value)
    IN /\ CanInsert(tree[0], 1)
       /\ InternalValueIndex(tree[0], old_value) # -1
       /\ tree' = [tree EXCEPT ![0] = r.page]
       /\ last' = [op |-> "InsertNodeAfter", old_value |-> old_value,
                   new_key |-> new_key, new_value |-> new_value,
                   result |-> r.result, before |-> tree[0]]
       /\ UNCHANGED nontreevars

NextInsertAfter ==
    \E old_value \in 1 .. (2 * MaxSize + 2), new_key \in Keys :
        InsertNodeAfter(old_value, new_key)

SpecInsertAfter == InitLookup /\ [][NextInsertAfter]_vars

\* ---------------------------------------------- claims on InsertNodeAfter
\* C22: InsertNodeAfter(old_child, new_key, new_child) on a page with free
\* capacity where old_child is at index i leaves the entries [0, i] as
\* they were, puts (new_key, new_child) at i + 1 and the former entries
\* [i+1, size) in the same order at [i+2, size+1), grows size by one and
\* returns it; no child identifier is lost or duplicated.
InsertNodeAfterPlacesNewChild ==
    last.op = "InsertNodeAfter" =>
        LET old == last.before
            page == tree[0]
            i == CHOOSE j \in 0 .. (old.size - 1) :
                    /\ old.array[j].value = last.old_value
                    /\ \A k \in 0 .. (j - 1) :
                          old.array[k].value # last.old_value
        IN /\ \A j \in 0 .. i : page.array[j] = old.array[j]
           /\ page.array[i + 1] =
                 [key |-> last.new_key, value |-> last.new_value]
           /\ \A j \in (i + 1) .. (old.size - 1) :
                 page.array[j + 1] = old.array[j]
           /\ page.size = old.size + 1
           /\ last.result = page.size
           /\ ChildrenOf(page) = ChildrenOf(old) \cup {last.new_value}
           /\ Cardinality(ChildrenOf(page)) = page.size

\* ----------------------------------------------- claims on the replacer
VictimStep == last'.op = "Victim"

\* C13: Victim removes and returns the candidate whose latest Unpin that
\* took effect is the oldest, so candidates leave in the order of those
\* Unpins; with no candidate it returns false, writes no frame id and
\* leaves the replacer as it was.
VictimIsOldestUnpinned ==
    [][VictimStep =>
          IF unpin_order = <<>>
          THEN /\ ~last'.ok
               /\ last'.frame = NoFrame
               /\ nodes' = nodes
               /\ index' = index
          ELSE /\ last'.ok
               /\ last'.frame = Head(unpin_order)
               /\ SeqRange(nodes') = SeqRange(nodes) \ {Head(unpin_order)}
               /\ index' = index \ {Head(unpin_order)}]_vars

\* after Unpin(0); Unpin(1); Unpin(2) on the empty replacer, the first
\* Victim returns 0 and leaves 1 and 2, in that order, to the next ones
VictimsInUnpinOrder ==
    /\ last.op = "Victim"
    /\ last.ok
    /\ last.frame = 0
    /\ last.before = <<2, 1, 0>>
    /\ unpin_order = <<1, 2>>

NoDuplicates(s) == \A i, j \in 1 .. Len(s) : s[i] = s[j] => i = j

RepeatedUnpinStep ==
    last'.op = "Unpin" /\ last'.frame \in SeqRange(unpin_order)

\* C14: Unpin of a frame that is already a candidate changes nothing (the
\* sequence, every position and Size stay), and after any calls the
\* candidate sequence has no duplicate and index_ holds exactly its ids.
UnpinIdempotent ==
    /\ [](NoDuplicates(nodes) /\ index = SeqRange(nodes))
    /\ [][RepeatedUnpinStep =>
             /\ nodes' = nodes
             /\ index' = index
             /\ LRUSize([nodes |-> nodes', index |-> index']) =
                    LRUSize([nodes |-> nodes, index |-> index])]_vars

\* Unpin was called on the candidate next to be evicted, with others ahead
UnpinOfOldestCandidate ==
    /\ last.op = "Unpin"
    /\ Len(last.before) = 3
    /\ last.frame = last.before[3]
    /\ nodes = last.before

\* the frames in the order in which successive Victim calls return them
RECURSIVE VictimOrder(_)
VictimOrder(r) ==
    LET v == LRUVictim(r)
    IN IF v.ok THEN <<v.frame_id>> \o VictimOrder(v.r) ELSE <<>>

Without(s, x) == SelectSeq(s, LAMBDA y : y # x)

\* the last two calls were Pin(x) on a candidate x, then Unpin(x)
RepinnedCandidate ==
    /\ last.op = "Unpin"
    /\ last.prev.op = "Pin"
    /\ last.prev.frame = last.frame
    /\ last.frame \in SeqRange(last.prev.before)

\* C15: Pin(x) on a candidate followed at once by Unpin(x) puts x at the
\* front: Victim returns x only after every other candidate then present,
\* whose order among themselves is unchanged; Pin of a frame that is not
\* a candidate changes nothing.
PinUnpinMovesToFront ==
    /\ RepinnedCandidate =>
          LET x == last.frame
              others == Without(last.prev.before, x)
          IN /\ nodes = <<x>> \o others
             /\ VictimOrder([nodes |-> nodes, index |-> index]) =
                   VictimOrder([nodes |-> others, index |-> index \ {x}])
                       \o <<x>>
    /\ (last.op = "Pin" /\ last.frame \notin SeqRange(last.before)) =>
          /\ nodes = last.before
          /\ index = SeqRange(last.before)

\* the candidate next to be evicted, with two others ahead, was re-pinned
OldestCandidateRepinned ==
    /\ RepinnedCandidate
    /\ Len(last.prev.before) = 3
    /\ last.frame = last.prev.before[3]

\* ------------------------------------------------ claims on the latches
\* thread t cannot go on before thread u releases a latch
WaitsFor(t, u) ==
    \/ th[t].pc = "lock" /\ pool_latch = u
    \/ /\ th[t].pc = "exec"
       /\ LatchedFrame(t) # NoFrame
       /\ Holds(u, LatchedFrame(t))

\* C11: with two or more threads, where a thread may keep the latch of a
\* frame it has pinned while it calls the pool, there is never a set of
\* threads each waiting for a latch that another thread of the set holds.
NoLatchDeadlock ==
    \A S \in SUBSET Threads :
        S # {} => \E t \in S : \A u \in S \ {t} : ~WaitsFor(t, u)

\* C12: no thread asks for the pool latch, or holds it, while it holds
\* the reader or writer latch of a frame.
PoolLatchBeforeFrameLatch ==
    \A t \in Threads : th[t].pc \in {"lock", "exec"} => HeldFrames(t) = {}

\* ------------------------------------- claims on the pool, continued
\* C21: DeletePage of a page that is not resident calls DeallocatePage for
\* it exactly once and returns true, and leaves the page table, the free
\* list, the replacer and every frame as they were.
DeleteNonResidentDeallocates ==
    [][(last'.op = "DeletePage" /\ last'.page_id \notin DOMAIN page_table) =>
          /\ last'.ok = TRUE
          /\ Occurrences([i \in 1 .. Len(last'.events) |->
                             <<last'.events[i].ev, last'.events[i].page_id>>],
                         <<"DeallocatePage", last'.page_id>>) = 1
          /\ UNCHANGED poolvars]_vars

\* ------------- SpecRedistribute: redistribution, split and merge between
\* two sibling pages, page 0 on the left of page 1.  The pages start as in
\* SpecMove.  middle_key is the separator the caller reads in the parent.
\* A run makes MaxCalls redistributions at most.
MiddleKeys == {0, MaxKey}
MaxCalls == 2

LeafMoveFirstToEnd(this, recipient) ==
    LET b == LeafMoveFirstToEndOf(TreeNow, this, recipient)
    IN /\ calls < MaxCalls
       /\ tree[this].page_type = "leaf"
       /\ ~IsEmpty(tree[this])
       /\ CanInsertWithoutSplit(tree[recipient], 1)
       /\ tree' = b.tree
       /\ last' = MoveCall("MoveFirstToEndOf", this, recipient, 0, b)
       /\ calls' = calls + 1
       /\ UNCHANGED offtreevars

LeafMoveLastToFront(this, recipient) ==
    LET b == LeafMoveLastToFrontOf(TreeNow, this, recipient)
    IN /\ calls < MaxCalls
       /\ tree[this].page_type = "leaf"
       /\ ~IsEmpty(tree[this])
       /\ CanInsertWithoutSplit(tree[recipient], 1)
       /\ tree' = b.tree
       /\ last' = MoveCall("MoveLastToFrontOf", this, recipient, 0, b)
       /\ calls' = calls + 1
       /\ UNCHANGED offtreevars

InternalMoveFirstToEnd(this, recipient, middle_key) ==
    LET b == InternalMoveFirstToEndOf(TreeNow, this, recipient, middle_key)
    IN /\ calls < MaxCalls
       /\ tree[this].page_type = "internal"
       /\ ~IsEmpty(tree[this])
       /\ CanInsertWithoutSplit(tree[recipient], 1)
       /\ tree' = b.tree
       /\ last' = MoveCall("MoveFirstToEndOf", this, recipient, middle_key, b)
       /\ calls' = calls + 1
       /\ UNCHANGED offtreevars

InternalMoveLastToFront(this, recipient, middle_key) ==
    LET b == InternalMoveLastToFrontOf(TreeNow, this, recipient, middle_key)
    IN /\ calls < MaxCalls
       /\ tree[this].page_type = "internal"
       /\ ~IsEmpty(tree[this])
       /\ CanInsertWithoutSplit(tree[recipient], 1)
       /\ tree' = b.tree
       /\ last' = MoveCall("MoveLastToFrontOf", this, recipient, middle_key, b)
       /\ calls' = calls + 1
       /\ UNCHANGED offtreevars

\* the recipient copies the last n entries of the donor this, which then
\* gives them up
InternalCopyN(this, recipient, n) ==
    LET size == tree[this].size
        items == [i \in 0 .. (n - 1) |-> tree[this].array[size - n + i]]
        b == InternalCopyNFrom(TreeNow, recipient, items, n)
    IN /\ calls < MaxCalls
       /\ tree[this].page_type = "internal"
       /\ n <= size
       /\ CanInsert(tree[recipient], n)
       /\ tree' = [b.tree EXCEPT ![this].size = @ - n]
       /\ last' = MoveCall("CopyNFrom", this, recipient, 0, b)
       /\ calls' = calls + 1
       /\ UNCHANGED offtreevars

NextRedistribute ==
    \E this, recipient \in {0, 1} :
       /\ this # recipient
       /\ \/ LeafMoveFirstToEnd(this, recipient)
          \/ LeafMoveLastToFront(this, recipient)
          \/ \E middle_key \in MiddleKeys :
                InternalMoveFirstToEnd(this, recipient, middle_key)
          \/ \E middle_key \in MiddleKeys :
                InternalMoveLastToFront(this, recipient, middle_key)
          \/ \E n \in 1 .. MaxSize : InternalCopyN(this, recipient, n)
          \/ LeafMoveHalf(this, recipient)
          \/ InternalMoveHalf(this, recipient)
          \/ LeafMoveAll(this, recipient)
          \/ \E middle_key \in MiddleKeys :
                InternalMoveAll(this, recipient, middle_key)

SpecRedistribute == InitMove /\ [][NextRedistribute]_vars

\* the entries of the left page followed by those of the right page
Combined(t, left, right) == Entries(t[left]) \o Entries(t[right])

LeafRedistributed ==
    /\ last.op \in {"MoveFirstToEndOf", "MoveLastToFrontOf"}
    /\ tree[last.this].page_type = "leaf"

\* C23: MoveFirstToEndOf from the right leaf to the left one and
\* MoveLastToFrontOf from the left leaf to the right one leave the entries of
\* left followed by right as they were, the donor one entry smaller and the
\* recipient one entry larger
LeafRedistributionKeepsSequence ==
    LeafRedistributed =>
        LET left == IF last.op = "MoveFirstToEndOf" THEN last.recipient
                    ELSE last.this
            right == IF last.op = "MoveFirstToEndOf" THEN last.this
                     ELSE last.recipient
        IN /\ Combined(tree, left, right) = Combined(last.before, left, right)
           /\ tree[last.this].size = last.before[last.this].size - 1
           /\ tree[last.recipient].size = last.before[last.recipient].size + 1

\* every child listed in page p of t names p as its parent
ParentsPointBack(t, p) ==
    \A child \in ChildrenOf(t[p]) : t[child].parent_page_id = t[p].page_id

InternalMoved ==
    /\ last.op \in {"MoveHalfTo", "MoveAllTo", "MoveFirstToEndOf",
                    "MoveLastToFrontOf", "CopyNFrom"}
    /\ tree[last.this].page_type = "internal"

\* the children whose parent the last call changed
Reparented ==
    { child \in DOMAIN tree :
         /\ tree[child].page_type = "child"
         /\ tree[child].parent_page_id # last.before[child].parent_page_id }

Stored == IF "stored" \in DOMAIN last THEN last.stored ELSE EmptyMap

MapCall(op, key, result, stored) ==
    [op |-> op, key |-> key, result |-> result, before |-> tree[0],
     stored |-> stored]

MapInsert(key) ==
    LET r == LeafInsert(tree[0], key, RidOf(key))
    IN /\ CanInsert(tree[0], 1)
       /\ key \notin DOMAIN Stored
       /\ tree' = [tree EXCEPT ![0] = r.page]
       /\ last' = MapCall("Insert", key, r.result,
                          MapPut(Stored, key, RidOf(key)))
       /\ UNCHANGED nontreevars

MapRemove(key) ==
    LET r == LeafRemoveAndDeleteRecord(tree[0], key)
    IN /\ tree' = [tree EXCEPT ![0] = r.page]
       /\ last' = MapCall("RemoveAndDeleteRecord", key, r.result,
                          MapErase(Stored, key))
       /\ UNCHANGED nontreevars

MapLookup(key) ==
    /\ last' = MapCall("Lookup", key, LeafLookup(tree[0], key), Stored)
    /\ UNCHANGED <<tree, nontreevars>>

NextLeafMap ==
    \/ \E key \in Keys : MapInsert(key)
    \/ \E key \in Keys : MapRemove(key)
    \/ \E key \in Keys : MapLookup(key)

SpecLeafMap == InitLeaf /\ [][NextLeafMap]_vars

\* the smallest index in [0, size) whose key is >= key, size when none is
FirstAtLeast(page, key) ==
    LET S == { i \in 0 .. (page.size - 1) : page.array[i].key >= key }
    IN IF S = {} THEN page.size
       ELSE CHOOSE i \in S : \A j \in S : i <= j

\* C24: after any Insert (distinct keys, within capacity) and
\* RemoveAndDeleteRecord calls on an initialized leaf, Lookup(k) returns v
\* exactly when (k, v) was inserted and not removed since, and the KeyIndex
\* each call computed was the smallest index in [0, size) with a key >= k,
\* size when there is none
LeafIsKeyToRecordMap ==
    /\ last.op = "Lookup" =>
          /\ last.result.found <=> last.key \in DOMAIN Stored
          /\ last.result.found => last.result.value = Stored[last.key]
    /\ last.op \in {"Insert", "RemoveAndDeleteRecord", "Lookup"} =>
          LeafKeyIndex(last.before, last.key)
             = FirstAtLeast(last.before, last.key)

\* ------------ SpecReparent: the pool of Spec with UpdateParent among its
\* callers.  The child's buffer holds its header; header is the content
\* after SetParentPageId.
\* asserted: the assert on the fetched page holds; when it fails the
\* program stops there
UpdateParentOnPool(b, child_page_id, header) ==
    LET r == FetchPageImpl(b, child_page_id)
    IN IF r.frame = NoFrame
       THEN [b |-> r.b, frame |-> NoFrame, asserted |-> FALSE]
       ELSE LET b1 == [r.b EXCEPT !.pages[r.frame].data = header]
                u == UnpinPageImpl(b1, child_page_id, TRUE)
            IN [b |-> u.b, frame |-> r.frame, asserted |-> TRUE]

PinCountOf(b, page_id) ==
    IF page_id \in DOMAIN b.page_table
    THEN b.pages[b.page_table[page_id]].pin_count
    ELSE 0

Reparent(child_page_id, header) ==
    LET r == UpdateParentOnPool(Pool, child_page_id, header)
    IN /\ Idle
       /\ child_page_id \in Allocated
       /\ PinCountOf(Pool, child_page_id) < MaxPin
       /\ Install(r.b)
       /\ pins' = Counted(r.b.page_table, child_page_id, 0)
       /\ last' = Call("UpdateParent", child_page_id, TRUE, r.frame,
                       r.asserted, r.b)
       /\ rt' = rt

NextReparent ==
    \/ Next
    \/ \E child_page_id \in PageIds, header \in Data :
          Reparent(child_page_id, header)

SpecReparent == Init /\ [][NextReparent]_vars

\* C26: in every reachable pool state the FetchPage inside UpdateParent
\* returns a frame, so the assert on it holds, and the fetch / unpin pair
\* leaves the child's pin_count as it was
UpdateParentNeverAsserts ==
    [][ (last.op = "Idle" /\ last'.op = "UpdateParent")
        => /\ last'.ok
           /\ last'.frame # NoFrame
           /\ PinCountOf([pages |-> pages', page_table |-> page_table'],
                         last'.page_id)
                 = PinCountOf(Pool, last'.page_id) ]_vars

\* ------------------------------------------------ claims on the dirty flag
DirtyCleared(f) == pages[f].is_dirty /\ ~pages'[f].is_dirty

\* the call that has just returned wrote the buffer frame f held to the
\* device under the page's identifier
WrittenBack(f) ==
    Event("WritePage", pages[f].page_id, NoFrame, pages[f].data)
       \in SeqRange(last'.events)

DeletedFrom(f) ==
    /\ last'.op = "DeletePage"
    /\ last'.ok
    /\ last'.page_id = pages[f].page_id

\* the call on a resident page that has just returned
ReturnedOn(op, is_dirty) ==
    /\ last'.op = op
    /\ last'.is_dirty = is_dirty
    /\ last'.ok
    /\ last'.page_id \in DOMAIN page_table

\* C28: UnpinPage(p, true) that returns true leaves p's frame dirty; a
\* FetchPage hit and an UnpinPage(p, false) leave a dirty frame dirty; the
\* flag of a frame is cleared only together with a WritePage of the buffer
\* it holds, or by DeletePage of its page
DirtyFlagIsSticky ==
    [][ /\ \A f \in Frames :
              DirtyCleared(f) => WrittenBack(f) \/ DeletedFrom(f)
        /\ ReturnedOn("UnpinPage", TRUE)
              => pages'[page_table[last'.page_id]].is_dirty
        /\ (ReturnedOn("UnpinPage", FALSE) \/ ReturnedOn("FetchPage", FALSE))
              => (pages[page_table[last'.page_id]].is_dirty
                     => pages'[page_table[last'.page_id]].is_dirty) ]_vars

\* an UnpinPage(p, false) has returned on a page made dirty before, whose
\* buffer the device does not have
DirtyAfterCleanUnpin ==
    /\ last.op = "UnpinPage"
    /\ ~last.is_dirty
    /\ last.ok
    /\ last.page_id \in DOMAIN page_table
    /\ pages[page_table[last.page_id]].is_dirty
    /\ pages[page_table[last.page_id]].pin_count = 0
    /\ pages[page_table[last.page_id]].data # disk[last.page_id]

\* ----------- SpecUnpin: threads calling FetchPage, NewPage and UnpinPage
\* at the same time, as in SpecLatch, with no latch held by a caller.  last
\* holds the call that ran last under latch_: its thread, the pin_count and
\* the replacer's frames it found, the threads that had called an entry
\* point and were waiting for latch_ meanwhile, and the call before it.
PinOps == {"FetchPage", "NewPage", "UnpinPage"}

\* the dirty hint plays no part here
Enter(t, op, p) == op \in PinOps /\ AcquirePoolLatch(t, op, p, FALSE)

Ran(t) ==
    [op |-> th[t].op, page_id |-> th[t].page_id, thread |-> t,
     before |-> PinsOn(th[t].page_id),
     hit |-> th[t].page_id \in DOMAIN page_table,
     waiting |-> { u \in Threads : th[u].pc = "lock" }]

Leave(t) ==
    /\ ExecuteStep(t)
    /\ last' = Ran(t) @@
               [candidates |-> index,
                prev |-> IF last.op \in PinOps
                         THEN [op |-> last.op, page_id |-> last.page_id,
                               thread |-> last.thread,
                               before |-> last.before,
                               waiting |-> last.waiting]
                         ELSE [op |-> "Idle", page_id |-> INVALID_PAGE_ID,
                               thread |-> NoThread, before |-> 0,
                               waiting |-> {}]]

NextUnpin ==
    \/ \E t \in Threads : Request(t)
    \/ \E t \in Threads, op \in PinOps,
          p \in PageIds \cup {INVALID_PAGE_ID} :
          Enter(t, op, p)
    \/ \E t \in Threads : Leave(t)

SpecUnpin == Init /\ [][NextUnpin]_vars

\* C27: whatever the interleaving of UnpinPage and FetchPage calls, a frame
\* enters the replacer only in the UnpinPage call that takes its pin_count
\* from 1 to 0, that call does insert it, a FetchPage hit leaves its frame
\* outside the replacer, and the replacer never holds a frame with
\* pin_count > 0
ReplacerHoldsOnlyUnpinned ==
    /\ \A f \in index : pages[f].pin_count = 0
    /\ last.op \in PinOps =>
          /\ \A f \in index \ last.candidates :
                /\ last.op = "UnpinPage"
                /\ last.hit
                /\ page_table[last.page_id] = f
                /\ last.before = 1
          /\ (last.op = "UnpinPage" /\ last.hit /\ last.before = 1)
                => page_table[last.page_id] \in index
          /\ (last.op = "FetchPage" /\ last.hit)
                => page_table[last.page_id] \notin index

\* two threads had UnpinPage calls on one page under way at once: the
\* first left pin_count at 1 while the second waited for latch_, the
\* second took it to 0
ConcurrentUnpinsServed ==
    /\ last.op = "UnpinPage"
    /\ last.hit
    /\ last.before = 1
    /\ last.prev.op = "UnpinPage"
    /\ last.prev.page_id = last.page_id
    /\ last.prev.before = 2
    /\ last.prev.thread # last.thread
    /\ last.thread \in last.prev.waiting

====
